---- MODULE Spec2Model ----
(***************************************************************************)
(* Elliott wave analyzer: pivot detection (zigzag_filter), wave pattern    *)
(* validation (WavePattern), current-wave / prediction orchestration       *)
(* (ElliottWaveAnalyzer), trade recommendations                            *)
(* (get_trade_recommendations) and the backtest simulator.                 *)
(*                                                                         *)
(* Real numbers of the program are modelled exactly: prices are integers   *)
(* (ticks), every derived real is a normalised fraction <<n, d>>, d > 0.   *)
(* Thresholds are given in hundredths (5 stands for 0.05).                 *)
(* Pivot indices are 0-based, as the code returns them; the TLA+ sequence  *)
(* holding the prices is 1-based, so prices[i] of the code is prices[i+1]. *)
(***************************************************************************)
EXTENDS Integers, Sequences, FiniteSets, TLC

VARIABLES
    \* zigzag_filter call
    zz_prices, zz_threshold, turning_points, zz_pc,
    \* WavePattern construction
    pattern_type, points, is_valid, next_target, pat_pc,
    \* get_trade_recommendations call
    current_wave, prediction, current_price, risk_tolerance, recommendations, rec_pc,
    \* ElliottWaveAnalyzer.backtest
    data, start_idx, end_idx, invest_amount, day, cash, shares, trades,
    equity_curve, bt_prediction, result, bt_pc,
    \* ElliottWaveAnalyzer.analyze, called up to MaxCalls times on one analyzer
    an_prices, an_threshold, an_window, an_pivots, waves, an_calls,
    \* ElliottWaveAnalyzer.find_current_wave call
    fw_prices, fw_look_back, found_wave, fw_pc,
    \* calculate_fibonacci_levels call
    start_price, end_price, levels, fib_pc

zzVars  == <<zz_prices, zz_threshold, turning_points, zz_pc>>
patVars == <<pattern_type, points, is_valid, next_target, pat_pc>>
recVars == <<current_wave, prediction, current_price, risk_tolerance, recommendations, rec_pc>>
btVars  == <<data, start_idx, end_idx, invest_amount, day, cash, shares, trades,
             equity_curve, bt_prediction, result, bt_pc>>
anVars  == <<an_prices, an_threshold, an_window, an_pivots, waves, an_calls>>
fwVars  == <<fw_prices, fw_look_back, found_wave, fw_pc>>
fibVars == <<start_price, end_price, levels, fib_pc>>
vars    == <<zzVars, patVars, recVars, btVars, anVars, fwVars, fibVars>>

\* Python's None where a number or a pair of numbers is expected
None == <<>>

-----------------------------------------------------------------------------
(* Exact arithmetic on fractions <<n, d>> with d > 0, kept in lowest terms. *)

Abs(x) == IF x < 0 THEN -x ELSE x

RECURSIVE GCD(_, _)
GCD(a, b) == IF b = 0 THEN a ELSE GCD(b, a % b)

Norm(n, d) ==
    LET s == IF d < 0 THEN -1 ELSE 1
        g == GCD(Abs(n), Abs(d))
    IN  IF n = 0 THEN <<0, 1>> ELSE <<(s * n) \div g, (s * d) \div g>>

R(n) == <<n, 1>>

\* sums and products cancel common factors before they multiply
RSub(a, b) ==
    LET g == GCD(a[2], b[2])
    IN  Norm(a[1] * (b[2] \div g) - b[1] * (a[2] \div g), (a[2] \div g) * b[2])
RAdd(a, b) == RSub(a, <<-b[1], b[2]>>)
RMul(a, b) ==
    IF a[1] = 0 \/ b[1] = 0 THEN <<0, 1>>
    ELSE LET g1 == GCD(Abs(a[1]), b[2])
             g2 == GCD(Abs(b[1]), a[2])
         IN  Norm((a[1] \div g1) * (b[1] \div g2), (a[2] \div g2) * (b[2] \div g1))
\* b is not zero
RDiv(a, b) == RMul(a, IF b[1] < 0 THEN <<-b[2], -b[1]>> ELSE <<b[2], b[1]>>)
RLt(a, b)  == RSub(a, b)[1] < 0
RLe(a, b)  == RSub(a, b)[1] <= 0
\* the second argument, whatever the first
RMax_second(a, b) == b
RMax(a, b) == IF RLt(a, b) THEN b ELSE a

Last(s) == s[Len(s)]

-----------------------------------------------------------------------------
(* Python's float: IEEE-754 binary64, round to nearest, ties to even.       *)
(* A natural number of any size is a sequence of limbs, least significant   *)
(* first, each in 0..32767, without a zero at the top. A float is           *)
(* [neg, m, e] and stands for (-1)^neg * m * 2^e; every float that an       *)
(* operation returns has m of exactly 53 bits, or m = <<>> and e = 0 for    *)
(* zero, so that equal floats other than the two zeros are equal records;   *)
(* subnormals and infinities are out of reach of the values used.           *)

RECURSIVE BigTrim(_)
BigTrim(a) == IF a = <<>> THEN <<>>
              ELSE IF a[Len(a)] = 0 THEN BigTrim(SubSeq(a, 1, Len(a) - 1)) ELSE a

RECURSIVE BigFromNat(_)
BigFromNat(n) == IF n = 0 THEN <<>> ELSE <<n % 32768>> \o BigFromNat(n \div 32768)

RECURSIVE BigToNat(_)
BigToNat(a) == IF a = <<>> THEN 0 ELSE a[1] + 32768 * BigToNat(SubSeq(a, 2, Len(a)))

\* a + b + carry, from limb i on
RECURSIVE BigAddFrom(_, _, _, _)
BigAddFrom(a, b, i, carry) ==
    IF i > Len(a) /\ i > Len(b) THEN (IF carry = 0 THEN <<>> ELSE <<carry>>)
    ELSE LET s == (IF i <= Len(a) THEN a[i] ELSE 0)
                  + (IF i <= Len(b) THEN b[i] ELSE 0) + carry
         IN  <<s % 32768>> \o BigAddFrom(a, b, i + 1, s \div 32768)

\* a - b for a >= b
RECURSIVE BigSubFrom(_, _, _, _)
BigSubFrom(a, b, i, borrow) ==
    IF i > Len(a) THEN <<>>
    ELSE LET s == a[i] - (IF i <= Len(b) THEN b[i] ELSE 0) - borrow
         IN  IF s < 0 THEN <<s + 32768>> \o BigSubFrom(a, b, i + 1, 1)
             ELSE <<s>> \o BigSubFrom(a, b, i + 1, 0)

BigSub(a, b) == BigTrim(BigSubFrom(a, b, 1, 0))

\* -1, 0 or 1 as a is below, equal to or above b
RECURSIVE BigCmpFrom(_, _, _)
BigCmpFrom(a, b, i) ==
    IF i = 0 THEN 0
    ELSE IF a[i] < b[i] THEN -1
    ELSE IF a[i] > b[i] THEN 1
    ELSE BigCmpFrom(a, b, i - 1)

BigCmp(a, b) ==
    IF Len(a) < Len(b) THEN -1
    ELSE IF Len(a) > Len(b) THEN 1
    ELSE BigCmpFrom(a, b, Len(a))

\* a * k for 0 <= k <= 32768
RECURSIVE BigMulSmallFrom(_, _, _, _)
BigMulSmallFrom(a, k, i, carry) ==
    IF i > Len(a) THEN (IF carry = 0 THEN <<>> ELSE <<carry>>)
    ELSE LET s == a[i] * k + carry
         IN  <<s % 32768>> \o BigMulSmallFrom(a, k, i + 1, s \div 32768)

BigMulSmall(a, k) == IF k = 0 THEN <<>> ELSE BigMulSmallFrom(a, k, 1, 0)

\* a * 2^k
BigShl(a, k) ==
    IF a = <<>> THEN <<>> ELSE [i \in 1..(k \div 15) |-> 0] \o BigMulSmall(a, 2^(k % 15))

\* a * b, from limb i of b on
RECURSIVE BigMulFrom(_, _, _)
BigMulFrom(a, b, i) ==
    IF i > Len(b) THEN <<>>
    ELSE BigAddFrom(BigShl(BigMulSmall(a, b[i]), 15 * (i - 1)),
                    BigMulFrom(a, b, i + 1), 1, 0)

\* the floor of a / 2^k
BigShr(a, k) ==
    LET n == k \div 15
        bits == k % 15
        rest == IF n >= Len(a) THEN <<>> ELSE SubSeq(a, n + 1, Len(a))
    IN  BigTrim([i \in 1..Len(rest) |->
                    (rest[i] \div 2^bits)
                    + ((IF i < Len(rest) THEN rest[i + 1] ELSE 0) % 2^bits) * 2^(15 - bits)])

RECURSIVE NatBitLen(_)
NatBitLen(n) == IF n = 0 THEN 0 ELSE 1 + NatBitLen(n \div 2)

BigBitLen(a) == IF a = <<>> THEN 0 ELSE 15 * (Len(a) - 1) + NatBitLen(a[Len(a)])

\* the limb of the quotient of a by shifted, counted down from an estimate
\* that is not below it
RECURSIVE BigDivDigit(_, _, _)
BigDivDigit(a, shifted, est) ==
    IF est > 0 /\ BigCmp(BigMulSmall(shifted, est), a) > 0
    THEN BigDivDigit(a, shifted, est - 1)
    ELSE est

\* quotient and remainder of a by b, long division one limb of the quotient
\* at a time, from limb j down: a is below b * 32768^(j + 1) and the top
\* limb of b is 16384 or more, so that the estimate from the top two limbs
\* of a and the top limb of b is at most 2 above the limb
RECURSIVE BigDivModFrom(_, _, _, _)
BigDivModFrom(a, b, j, q) ==
    IF j < 0 THEN [q |-> BigTrim(q), r |-> a]
    ELSE LET n == Len(b)
             top == (IF Len(a) >= j + n + 1 THEN a[j + n + 1] ELSE 0) * 32768
                    + (IF Len(a) >= j + n THEN a[j + n] ELSE 0)
             est == IF top \div b[n] > 32767 THEN 32767 ELSE top \div b[n]
             shifted == [i \in 1..j |-> 0] \o b
             digit == BigDivDigit(a, shifted, est)
         IN  BigDivModFrom(BigSub(a, BigMulSmall(shifted, digit)), b, j - 1,
                           <<digit>> \o q)

\* a with its lowest k bits rounded away, to nearest, ties to even
BigRoundShr(a, k) ==
    IF k <= 0 THEN a
    ELSE LET q == BigShr(a, k)
             c == BigCmp(BigSub(a, BigShl(q, k)), BigShl(<<1>>, k - 1))
         IN  IF c > 0 \/ (c = 0 /\ q # <<>> /\ q[1] % 2 = 1)
             THEN BigAddFrom(q, <<1>>, 1, 0) ELSE q

\* the float nearest to (-1)^neg * m * 2^e
FloatRound(neg, m, e) ==
    LET k == BigBitLen(m) - 53
        carried(r) == IF BigBitLen(r) > 53
                      THEN [neg |-> neg, m |-> BigShr(r, 1), e |-> e + k + 1]
                      ELSE [neg |-> neg, m |-> r, e |-> e + k]
    IN  IF m = <<>> THEN [neg |-> neg, m |-> <<>>, e |-> 0]
        ELSE IF k <= 0 THEN [neg |-> neg, m |-> BigShl(m, -k), e |-> e + k]
        ELSE carried(BigRoundShr(m, k))

FloatOfInt(n) == FloatRound(n < 0, BigFromNat(Abs(n)), 0)

FloatMul(x, y) ==
    IF x.m = <<>> \/ y.m = <<>> THEN [neg |-> x.neg # y.neg, m |-> <<>>, e |-> 0]
    ELSE FloatRound(x.neg # y.neg, BigMulFrom(x.m, y.m, 1), x.e + y.e)

\* x / y for y # 0: the quotient to 56 bits and more, the last one sticky;
\* both are shifted so that the top limb of the divisor is full
FloatDiv(x, y) ==
    LET k == IF BigBitLen(x.m) > 56 + BigBitLen(y.m) THEN 0
             ELSE 56 + BigBitLen(y.m) - BigBitLen(x.m)
        s == (15 - (BigBitLen(y.m) % 15)) % 15
        num == BigShl(x.m, k + s)
        den == BigShl(y.m, s)
        rounded(d) ==
            FloatRound(x.neg # y.neg,
                       BigAddFrom(BigShl(d.q, 1), IF d.r = <<>> THEN <<>> ELSE <<1>>, 1, 0),
                       x.e - y.e - k - 1)
    IN  rounded(BigDivModFrom(num, den, Len(num) - Len(den), <<>>))

\* a zero added to a float other than zero leaves it as it is
FloatAdd(x, y) ==
    LET e == IF x.e < y.e THEN x.e ELSE y.e
        mx == BigShl(x.m, x.e - e)
        my == BigShl(y.m, y.e - e)
    IN  IF y.m = <<>> /\ x.m # <<>> THEN x
        ELSE IF x.m = <<>> /\ y.m # <<>> THEN y
        ELSE IF x.neg = y.neg THEN FloatRound(x.neg, BigAddFrom(mx, my, 1, 0), e)
        ELSE IF BigCmp(mx, my) > 0 THEN FloatRound(x.neg, BigSub(mx, my), e)
        ELSE IF BigCmp(mx, my) < 0 THEN FloatRound(y.neg, BigSub(my, mx), e)
        ELSE [neg |-> FALSE, m |-> <<>>, e |-> 0]

FloatSub(x, y) == FloatAdd(x, [y EXCEPT !.neg = ~y.neg])

\* x < y: by the signs, then by the exponents and the mantissas, which
\* have 53 bits each
FloatLt(x, y) ==
    LET below == IF x.e # y.e THEN x.e < y.e ELSE BigCmp(x.m, y.m) < 0
        above == IF x.e # y.e THEN x.e > y.e ELSE BigCmp(x.m, y.m) > 0
    IN  IF x.m = <<>> THEN y.m # <<>> /\ ~y.neg
        ELSE IF y.m = <<>> THEN x.neg
        ELSE IF x.neg # y.neg THEN x.neg
        ELSE IF x.neg THEN above ELSE below

\* the float a decimal literal or an exact fraction <<n, d>> is read as
FloatOfFraction(q) == FloatDiv(FloatOfInt(q[1]), FloatOfInt(q[2]))

\* f"{x:.2f}": the sign printed and the number of hundredths nearest to the
\* exact value of the float x, ties to even
FloatFormat2(x) ==
    LET n == BigMulSmall(x.m, 100)
        h == IF x.e >= 0 THEN BigShl(n, x.e) ELSE BigRoundShr(n, -x.e)
    IN  [minus |-> x.neg, hundredths |-> BigToNat(h)]

-----------------------------------------------------------------------------
(* utils.zigzag_filter                                                      *)

\* state of the loop before its first iteration (utils.py:164-167)
ZigzagStart(prices) ==
    [up_trend |-> TRUE, last_extreme |-> prices[1], last_extreme_idx |-> 0,
     turning_points |-> <<0>>]

\* prices[i] < last_extreme * (1 - threshold) (utils.py:176). The float
\* product is within 2^-51 of the exact one, relatively, and integer prices
\* p and last_extreme make the exact sides differ by 1/100 or more unless they
\* are equal: only then does the rounding of the product decide.
FallsBelow(p, last_extreme, threshold) ==
    IF 100 * p # last_extreme * (100 - threshold)
    THEN 100 * p < last_extreme * (100 - threshold)
    ELSE LET thr == FloatOfFraction(<<threshold, 100>>)
         IN  FloatLt(FloatOfInt(p),
                     FloatMul(FloatOfInt(last_extreme),
                              FloatAdd(FloatOfInt(1), [thr EXCEPT !.neg = ~thr.neg])))

\* prices[i] > last_extreme * (1 + threshold) (utils.py:188)
RisesAbove(p, last_extreme, threshold) ==
    IF 100 * p # last_extreme * (100 + threshold)
    THEN 100 * p > last_extreme * (100 + threshold)
    ELSE LET thr == FloatOfFraction(<<threshold, 100>>)
         IN  FloatLt(FloatMul(FloatOfInt(last_extreme), FloatAdd(FloatOfInt(1), thr)),
                     FloatOfInt(p))

\* a new high moves the running extreme but not its index
ZigzagStep_staleidx(st, prices, i, threshold) ==
    LET p == prices[i + 1]
    IN  IF st.up_trend
        THEN IF p > st.last_extreme
             THEN [st EXCEPT !.last_extreme = p]
             ELSE IF FallsBelow(p, st.last_extreme, threshold)
             THEN [up_trend |-> FALSE, last_extreme |-> p, last_extreme_idx |-> i,
                   turning_points |-> Append(st.turning_points, st.last_extreme_idx)]
             ELSE st
        ELSE IF p < st.last_extreme
             THEN [st EXCEPT !.last_extreme = p, !.last_extreme_idx = i]
             ELSE IF RisesAbove(p, st.last_extreme, threshold)
             THEN [up_trend |-> TRUE, last_extreme |-> p, last_extreme_idx |-> i,
                   turning_points |-> Append(st.turning_points, st.last_extreme_idx)]
             ELSE st

\* one iteration of the loop, for index i (utils.py:169-193)
ZigzagStep(st, prices, i, threshold) ==
    LET p == prices[i + 1]
    IN  IF st.up_trend
        THEN IF p > st.last_extreme
             THEN [st EXCEPT !.last_extreme = p, !.last_extreme_idx = i]
             ELSE IF FallsBelow(p, st.last_extreme, threshold)
             THEN [up_trend |-> FALSE, last_extreme |-> p, last_extreme_idx |-> i,
                   turning_points |-> Append(st.turning_points, st.last_extreme_idx)]
             ELSE st
        ELSE IF p < st.last_extreme
             THEN [st EXCEPT !.last_extreme = p, !.last_extreme_idx = i]
             ELSE IF RisesAbove(p, st.last_extreme, threshold)
             THEN [up_trend |-> TRUE, last_extreme |-> p, last_extreme_idx |-> i,
                   turning_points |-> Append(st.turning_points, st.last_extreme_idx)]
             ELSE st

RECURSIVE ZigzagLoop(_, _, _, _)
ZigzagLoop(st, prices, i, threshold) ==
    IF i >= Len(prices) THEN st
    ELSE ZigzagLoop(ZigzagStep(st, prices, i, threshold), prices, i + 1, threshold)

\* the last index of the list is appended in place of the running extreme's
zigzag_filter_lastpoint(prices, threshold) ==
    LET closed(st) ==
            IF Len(prices) - 1 # Last(st.turning_points)
            THEN Append(st.turning_points, Len(prices) - 1)
            ELSE st.turning_points
    IN  closed(ZigzagLoop(ZigzagStart(prices), prices, 1, threshold))

\* the list of pivot indices (utils.py:152-199); prices is non-empty
zigzag_filter(prices, threshold) ==
    LET closed(st) ==
            IF st.last_extreme_idx # Last(st.turning_points)
            THEN Append(st.turning_points, st.last_extreme_idx)
            ELSE st.turning_points
    IN  closed(ZigzagLoop(ZigzagStart(prices), prices, 1, threshold))

-----------------------------------------------------------------------------
(* patterns.WavePattern: points is a sequence of <<index, price>> pairs     *)

PointPrices(pts) == [k \in 1..Len(pts) |-> pts[k][2]]

Min2(a, b) == IF a < b THEN a ELSE b

\* rule 1 compares with <, so a wave 2 ending exactly at the origin of
\* wave 1 passes
validate_impulse_wave_strict(pts) ==
    IF Len(pts) < 6 THEN FALSE
    ELSE LET prices == PointPrices(pts)
             p0 == prices[1]
             p2 == prices[3]
             p4 == prices[5]
             p5 == prices[6]
             wave1_length == Abs(p2 - p0)
             wave3_length == Abs(p4 - p2)
             wave5_length == Abs(p5 - p4)
         IN  IF p2 < p0 THEN FALSE
             ELSE IF ~(wave3_length > wave1_length \/ wave3_length > wave5_length) THEN FALSE
             ELSE IF wave3_length < Min2(wave1_length, wave5_length) THEN FALSE
             ELSE IF (p0 < p2 /\ p4 < p2) \/ (p0 > p2 /\ p4 > p2)
                  THEN ~((p0 < p2 /\ p4 < p0) \/ (p0 > p2 /\ p4 > p0))
                  ELSE TRUE

\* patterns.py:61-97
\* rule 2 (wave 3 longer than wave 1 or wave 5) is left out
validate_impulse_wave_norule2(pts) ==
    IF Len(pts) < 6 THEN FALSE
    ELSE LET prices == PointPrices(pts)
             p0 == prices[1]
             p2 == prices[3]
             p4 == prices[5]
             p5 == prices[6]
             wave1_length == Abs(p2 - p0)
             wave3_length == Abs(p4 - p2)
             wave5_length == Abs(p5 - p4)
         IN  IF p2 <= p0 THEN FALSE
             ELSE IF wave3_length < Min2(wave1_length, wave5_length) THEN FALSE
             ELSE IF (p0 < p2 /\ p4 < p2) \/ (p0 > p2 /\ p4 > p2)
                  THEN ~((p0 < p2 /\ p4 < p0) \/ (p0 > p2 /\ p4 > p0))
                  ELSE TRUE

validate_impulse_wave(pts) ==
    IF Len(pts) < 6 THEN FALSE
    ELSE LET prices == PointPrices(pts)
             p0 == prices[1]
             p2 == prices[3]
             p4 == prices[5]
             p5 == prices[6]
             wave1_length == Abs(p2 - p0)
             wave3_length == Abs(p4 - p2)
             wave5_length == Abs(p5 - p4)
         IN  IF p2 <= p0 THEN FALSE
             ELSE IF ~(wave3_length > wave1_length \/ wave3_length > wave5_length) THEN FALSE
             ELSE IF wave3_length < Min2(wave1_length, wave5_length) THEN FALSE
             ELSE IF (p0 < p2 /\ p4 < p2) \/ (p0 > p2 /\ p4 > p2)
                  THEN ~((p0 < p2 /\ p4 < p0) \/ (p0 > p2 /\ p4 > p0))
                  ELSE TRUE

\* patterns.py:99-113
validate_corrective_wave(pts) == Len(pts) >= 4

\* patterns.py:115-129
validate_diagonal_wave(pts) == Len(pts) >= 6

\* patterns.py:45-59
validate_pattern(ptype, pts) ==
    IF ptype = "impulse" THEN validate_impulse_wave(pts)
    ELSE IF ptype = "corrective" THEN validate_corrective_wave(pts)
    ELSE IF ptype = "diagonal" THEN validate_diagonal_wave(pts)
    ELSE TRUE

\* patterns.py:33-43: the constructed object
WavePattern(ptype, pts) ==
    [pattern_type |-> ptype, points |-> pts, is_valid |-> validate_pattern(ptype, pts)]

\* the direction of an impulse is read off its last leg, point 4 to point 5
get_next_target_lastleg(pattern) ==
    IF ~pattern.is_valid THEN None
    ELSE LET prices == PointPrices(pattern.points)
             n == Len(prices)
         IN  IF pattern.pattern_type = "impulse" /\ n >= 5
             THEN LET wave_length == Abs(prices[n] - prices[1])
                      direction == IF prices[n] > prices[n - 1] THEN 1 ELSE -1
                  IN  <<RSub(R(prices[n]), Norm(direction * 382 * wave_length, 1000)),
                        RSub(R(prices[n]), Norm(direction * 618 * wave_length, 1000))>>
             ELSE IF pattern.pattern_type = "corrective" /\ n >= 3
             THEN LET wave_length == Abs(prices[n] - prices[1])
                      direction == IF prices[n] < prices[1] THEN 1 ELSE -1
                  IN  <<RAdd(R(prices[n]), R(direction * wave_length)),
                        RAdd(R(prices[n]), Norm(direction * 1618 * wave_length, 1000))>>
             ELSE None

\* patterns.py:131-166: None, or the pair <<near, far>> of fractions
get_next_target(pattern) ==
    IF ~pattern.is_valid THEN None
    ELSE LET prices == PointPrices(pattern.points)
             n == Len(prices)
         IN  IF pattern.pattern_type = "impulse" /\ n >= 5
             THEN LET wave_length == Abs(prices[n] - prices[1])
                      direction == IF prices[n] > prices[1] THEN 1 ELSE -1
                  IN  <<RSub(R(prices[n]), Norm(direction * 382 * wave_length, 1000)),
                        RSub(R(prices[n]), Norm(direction * 618 * wave_length, 1000))>>
             ELSE IF pattern.pattern_type = "corrective" /\ n >= 3
             THEN LET wave_length == Abs(prices[n] - prices[1])
                      direction == IF prices[n] < prices[1] THEN 1 ELSE -1
                  IN  <<RAdd(R(prices[n]), R(direction * wave_length)),
                        RAdd(R(prices[n]), Norm(direction * 1618 * wave_length, 1000))>>
             ELSE None

-----------------------------------------------------------------------------
(* analyzer.ElliottWaveAnalyzer: find_current_wave, predict_next_move       *)

LookBack == 30
FindThreshold == 3

TrendContinuation == "Trendfortsetzung erwartet"
Correction        == "Korrektur erwartet"
Undetermined      == "unbestimmt"
WaveMayBeComplete == "Welle koennte abgeschlossen sein"

\* find_current_wave returning None, and its list comprehension raising
NoWave     == [type |-> "None", points |-> <<>>, next_target |-> None]
IndexError == [type |-> "IndexError", points |-> <<>>, next_target |-> None]

\* prices[-look_back:] of a Python sequence (analyzer.py:99)
LastN(prices, look_back) ==
    LET n == Len(prices)
        start == IF -look_back < 0
                 THEN (IF n - look_back > 0 THEN n - look_back ELSE 0)
                 ELSE (IF -look_back < n THEN -look_back ELSE n)
    IN  SubSeq(prices, start + 1, n)

\* prices[idx] of a Python sequence: a negative index counts from the end
InRange(prices, idx) == -Len(prices) <= idx /\ idx < Len(prices)
PyIndex(prices, idx) == IF idx >= 0 THEN prices[idx + 1] ELSE prices[Len(prices) + idx + 1]

\* analyzer.py:88-133: NoWave, IndexError, or the wave found; on an empty
\* slice zigzag_filter raises IndexError at prices[0] (utils.py:165)
find_current_wave(prices, look_back) ==
    LET wave_of(last_n_prices, pivot_points) ==
            LET abs_pivot_points == [k \in 1..Len(pivot_points) |->
                                        Len(prices) - look_back + pivot_points[k]]
                wave_at(pts, impulse_pattern, corrective_pattern) ==
                    IF Len(pts) >= 5 /\ impulse_pattern.is_valid
                    THEN [type |-> "impulse", points |-> pts,
                          next_target |-> get_next_target(impulse_pattern)]
                    ELSE IF corrective_pattern.is_valid
                    THEN [type |-> "corrective", points |-> pts,
                          next_target |-> get_next_target(corrective_pattern)]
                    ELSE NoWave
                wave_on(pts) ==
                    wave_at(pts, WavePattern("impulse", pts), WavePattern("corrective", pts))
            IN  IF Len(abs_pivot_points) >= 3
                THEN IF \E k \in 1..Len(abs_pivot_points) :
                            ~InRange(prices, abs_pivot_points[k])
                     THEN IndexError
                     ELSE wave_on([k \in 1..Len(abs_pivot_points) |->
                                    <<abs_pivot_points[k],
                                      PyIndex(prices, abs_pivot_points[k])>>])
                ELSE NoWave
        window_wave(last_n_prices) ==
            IF last_n_prices = <<>> THEN IndexError
            ELSE wave_of(last_n_prices, zigzag_filter(last_n_prices, FindThreshold))
    IN  window_wave(LastN(prices, look_back))

\* the two confidences change places
predict_next_move_swapped(prices) ==
    LET move_after(wave) ==
            IF wave.type = "IndexError"
            THEN [prediction |-> "IndexError", confidence |-> <<0, 1>>, target |-> None]
            ELSE IF wave.type = "impulse"
            THEN [prediction |-> Correction, confidence |-> <<3, 5>>,
                  target |-> wave.next_target]
            ELSE IF wave.type = "corrective"
            THEN [prediction |-> TrendContinuation, confidence |-> <<7, 10>>,
                  target |-> wave.next_target]
            ELSE [prediction |-> Undetermined, confidence |-> <<0, 1>>, target |-> None]
    IN  move_after(find_current_wave(prices, LookBack))

\* analyzer.py:135-173; the prediction is IndexError when find_current_wave raises
predict_next_move(prices) ==
    LET move_after(wave) ==
            IF wave.type = "IndexError"
            THEN [prediction |-> "IndexError", confidence |-> <<0, 1>>, target |-> None]
            ELSE IF wave.type = "None"
            THEN [prediction |-> Undetermined, confidence |-> <<0, 1>>, target |-> None]
            ELSE IF wave.type = "impulse"
            THEN [prediction |-> Correction, confidence |-> <<7, 10>>,
                  target |-> wave.next_target]
            ELSE IF wave.type = "corrective"
            THEN [prediction |-> TrendContinuation, confidence |-> <<3, 5>>,
                  target |-> wave.next_target]
            ELSE [prediction |-> Undetermined, confidence |-> <<0, 1>>, target |-> None]
    IN  move_after(find_current_wave(prices, LookBack))

-----------------------------------------------------------------------------
(* utils.find_local_extrema, analyzer.ElliottWaveAnalyzer.analyze           *)

\* numpy's take(..., mode='clip'): an index outside the list is moved to its
\* nearest end
Clip(prices, idx) ==
    IF idx < 0 THEN prices[1]
    ELSE IF idx >= Len(prices) THEN prices[Len(prices)] ELSE prices[idx + 1]

\* argrelextrema raising 'Order must be an int >= 1'
ValueError == [raised |-> "ValueError"]

\* argrelextrema(prices, np.greater, order=window): the indices whose price is
\* above the prices at every distance 1..window on both sides (utils.py:22);
\* an order below 1 raises
RelMaxima(prices, window) ==
    IF window < 1 THEN ValueError
    ELSE {i \in 0..(Len(prices) - 1) :
            \A k \in 1..window : /\ prices[i + 1] > Clip(prices, i + k)
                                 /\ prices[i + 1] > Clip(prices, i - k)}

\* argrelextrema(prices, np.less, order=window) (utils.py:24)
RelMinima(prices, window) ==
    IF window < 1 THEN ValueError
    ELSE {i \in 0..(Len(prices) - 1) :
            \A k \in 1..window : /\ prices[i + 1] < Clip(prices, i + k)
                                 /\ prices[i + 1] < Clip(prices, i - k)}

\* utils.py:9-26
find_local_extrema(prices, window) ==
    IF window < 1 THEN ValueError
    ELSE [maxima |-> RelMaxima(prices, window), minima |-> RelMinima(prices, window)]

\* sorted(...) of a set of integers
RECURSIVE Sorted(_)
Sorted(S) ==
    IF S = {} THEN <<>>
    ELSE LET lo == CHOOSE x \in S : \A y \in S : x <= y
         IN  <<lo>> \o Sorted(S \ {lo})

\* pivot_points[a:b] of a Python list, a and b 0-based and not negative
Slice(s, a, b) ==
    LET hi == IF b < Len(s) THEN b ELSE Len(s)
    IN  IF a >= hi THEN <<>> ELSE SubSeq(s, a + 1, hi)

\* analyzer.py:26-31
EmptyWaves == [impulse |-> <<>>, corrective |-> <<>>, motive |-> <<>>, diagonal |-> <<>>]

\* [(idx, self.prices[idx]) for idx in indices] (analyzer.py:66, 79)
PointsAt(prices, indices) ==
    [k \in 1..Len(indices) |-> <<indices[k], prices[indices[k] + 1]>>]

\* the record appended for a valid pattern (analyzer.py:71-75, 82-86)
WaveRecord(indices, pattern, found) ==
    [indices |-> indices, pattern |-> pattern, wave_count |-> Len(found) + 1]

\* one iteration of the loop of _identify_waves (analyzer.py:66-86)
IdentifyStep(w, pivot_points, prices, i) ==
    LET idx6 == Slice(pivot_points, i, i + 6)
        impulse_pattern == WavePattern("impulse", PointsAt(prices, idx6))
        w1 == IF impulse_pattern.is_valid
              THEN [w EXCEPT !.impulse = Append(@, WaveRecord(idx6, impulse_pattern, w.impulse))]
              ELSE w
        idx4 == Slice(pivot_points, i, i + 4)
        corrective_pattern == WavePattern("corrective", PointsAt(prices, idx4))
    IN  IF i <= Len(pivot_points) - 4 /\ corrective_pattern.is_valid
        THEN [w1 EXCEPT !.corrective =
                    Append(@, WaveRecord(idx4, corrective_pattern, w1.corrective))]
        ELSE w1

\* analyzer.py:57-86: for i in range(len(pivot_points) - 5), from offset i on
RECURSIVE IdentifyFrom(_, _, _, _)
IdentifyFrom(w, pivot_points, prices, i) ==
    IF i >= Len(pivot_points) - 5 THEN w
    ELSE IdentifyFrom(IdentifyStep(w, pivot_points, prices, i), pivot_points, prices, i + 1)

_identify_waves(w, pivot_points, prices) == IdentifyFrom(w, pivot_points, prices, 0)

\* analyzer.py:45-50: find_local_extrema is called and raises
AnalyzeRaises(prices, zigzag_threshold, window_size) ==
    Len(zigzag_filter(prices, zigzag_threshold)) < 5 /\ window_size < 1

\* analyzer.py:45-50: the pivots analyze works on
AnalyzePivots(prices, zigzag_threshold, window_size) ==
    LET pivots_or(pivot_points) ==
            IF Len(pivot_points) < 5
            THEN LET ex == find_local_extrema(prices, window_size)
                 IN  IF window_size < 1 THEN ValueError
                     ELSE Sorted(ex.maxima \cup ex.minima)
            ELSE pivot_points
    IN  pivots_or(zigzag_filter(prices, zigzag_threshold))

\* analyzer.py:33-55: self.waves after the call, w being self.waves before
\* it, or ValueError when the call raises and leaves self.waves as it was
analyze(w, prices, zigzag_threshold, window_size) ==
    IF AnalyzeRaises(prices, zigzag_threshold, window_size) THEN ValueError
    ELSE _identify_waves(w, AnalyzePivots(prices, zigzag_threshold, window_size), prices)

-----------------------------------------------------------------------------
(* main.get_trade_recommendations                                           *)

\* main.py:96-102
NeutralRecommendation ==
    [empfehlung |-> "Neutral", grund |-> "Keine klare Handelsempfehlung moeglich",
     ziele |-> <<>>, stop_loss |-> None, risk_reward |-> <<>>, raised |-> "no"]

\* a division by a current price of 0 raises
ZeroDivisionError == [NeutralRecommendation EXCEPT !.raised = "ZeroDivisionError"]

\* the guard accepts a confidence of 0.4 and more
LowConfidence_loose(pred) == RLt(pred.confidence, <<2, 5>>)

\* main.py:105
LowConfidence(pred) == RLt(pred.confidence, <<1, 2>>)

\* main.py:112-115 (and 189-192, 246-248): a wave with at least two points
HasTwoPoints(wave) == wave.type # "None" /\ Len(wave.points) >= 2

\* main.py:133 (165, 205, 227): prediction['target'] is a non-empty tuple
HasTargetPair(pred) == Len(pred.target) = 2

LastPoint(wave)       == wave.points[Len(wave.points)][2]
SecondLastPoint(wave) == wave.points[Len(wave.points) - 1][2]

\* the prices of points[-3:]
LastThree(wave) ==
    LET n == Len(wave.points)
    IN  {wave.points[k][2] : k \in (IF n >= 3 THEN n - 2 ELSE 1)..n}

SetMin(S) == CHOOSE x \in S : \A y \in S : x <= y
SetMax(S) == CHOOSE x \in S : \A y \in S : x >= y

RiskFactor(rt, num, den, sign) == RAdd(R(1), RMul(R(sign), RMul(rt, <<num, den>>)))

\* f"+{((target / current_price) - 1) * 100:.2f}%" (main.py:139) and
\* f"-{((1 - (target / current_price)) * 100):.2f}%" (main.py:175), computed
\* in floats: the text is the prefix, a minus sign if minus holds, and
\* hundredths / 100 with two decimals ("+-0.00%" has minus and 0 hundredths)
ChangeUp(target, cp) ==
    LET q == FloatDiv(FloatOfFraction(target), FloatOfFraction(cp))
        x == FloatMul(FloatAdd(q, FloatOfInt(-1)), FloatOfInt(100))
    IN  [prefix |-> "+", minus |-> FloatFormat2(x).minus,
         hundredths |-> FloatFormat2(x).hundredths]
ChangeDown(target, cp) ==
    LET q == FloatDiv(FloatOfFraction(target), FloatOfFraction(cp))
        x == FloatMul(FloatAdd(FloatOfInt(1), [q EXCEPT !.neg = ~q.neg]), FloatOfInt(100))
    IN  [prefix |-> "-", minus |-> FloatFormat2(x).minus,
         hundredths |-> FloatFormat2(x).hundredths]

\* main.py:110-185
TrendBranch(rec, wave, pred, cp, rt) ==
    IF ~HasTwoPoints(wave) THEN rec
    ELSE IF LastPoint(wave) > SecondLastPoint(wave)
    THEN LET wave_low == IF Len(wave.points) >= 3 THEN R(SetMin(LastThree(wave)))
                         ELSE RMul(cp, RiskFactor(rt, 3, 2, -1))
             percent_stop == RMul(cp, RiskFactor(rt, 1, 1, -1))
             stop == RMax(wave_low, percent_stop)
             base == [rec EXCEPT !.empfehlung = "Kaufen",
                                 !.grund = "Aufwaertstrend wird voraussichtlich fortgesetzt",
                                 !.stop_loss = stop]
         IN  IF ~HasTargetPair(pred) THEN base
             ELSE IF cp = R(0) THEN ZeroDivisionError
             ELSE LET target1 == pred.target[1]
                      target2 == pred.target[2]
                      risk == RDiv(RSub(cp, stop), cp)
                      reward1 == RDiv(RSub(target1, cp), cp)
                      reward2 == RDiv(RSub(target2, cp), cp)
                  IN  [base EXCEPT
                         !.ziele = <<[preis |-> target1, aenderung |-> ChangeUp(target1, cp)],
                                     [preis |-> target2, aenderung |-> ChangeUp(target2, cp)]>>,
                         !.risk_reward = IF RLt(R(0), risk)
                                         THEN <<RDiv(reward1, risk), RDiv(reward2, risk)>>
                                         ELSE <<>>]
    ELSE IF LastPoint(wave) < SecondLastPoint(wave)
    THEN LET wave_high == IF Len(wave.points) >= 3 THEN R(SetMax(LastThree(wave)))
                          ELSE RMul(cp, RiskFactor(rt, 3, 2, 1))
             percent_stop == RMul(cp, RiskFactor(rt, 1, 1, 1))
             stop == IF RLt(percent_stop, wave_high) THEN percent_stop ELSE wave_high
             base == [rec EXCEPT !.empfehlung = "Verkaufen",
                                 !.grund = "Abwaertstrend wird voraussichtlich fortgesetzt",
                                 !.stop_loss = stop]
         IN  IF ~HasTargetPair(pred) THEN base
             ELSE IF cp = R(0) THEN ZeroDivisionError
             ELSE LET swap == RLt(pred.target[2], pred.target[1])
                      target1 == IF swap THEN pred.target[2] ELSE pred.target[1]
                      target2 == IF swap THEN pred.target[1] ELSE pred.target[2]
                      risk == RDiv(RSub(stop, cp), cp)
                      reward1 == RDiv(RSub(cp, target1), cp)
                      reward2 == RDiv(RSub(cp, target2), cp)
                  IN  [base EXCEPT
                         !.ziele = <<[preis |-> target1, aenderung |-> ChangeDown(target1, cp)],
                                     [preis |-> target2, aenderung |-> ChangeDown(target2, cp)]>>,
                         !.risk_reward = IF RLt(R(0), risk)
                                         THEN <<RDiv(reward1, risk), RDiv(reward2, risk)>>
                                         ELSE <<>>]
    ELSE rec

\* main.py:193-238: the two directions of the last leg
CorrectionWithWave(rec, wave, pred, cp, rt) ==
    IF LastPoint(wave) > SecondLastPoint(wave)
    THEN LET base == [rec EXCEPT !.empfehlung = "Gewinne mitnehmen",
                                 !.grund = "Korrektur des Aufwaertstrends erwartet",
                                 !.stop_loss = RMul(cp, RiskFactor(rt, 1, 2, -1))]
         IN  IF ~HasTargetPair(pred) THEN base
             ELSE IF cp = R(0) THEN ZeroDivisionError
             ELSE LET swap == RLt(pred.target[2], pred.target[1])
                      target1 == IF swap THEN pred.target[2] ELSE pred.target[1]
                      target2 == IF swap THEN pred.target[1] ELSE pred.target[2]
                  IN  [base EXCEPT
                         !.ziele = <<[preis |-> target1, aenderung |-> ChangeDown(target1, cp)],
                                     [preis |-> target2, aenderung |-> ChangeDown(target2, cp)]>>]
    ELSE IF LastPoint(wave) < SecondLastPoint(wave)
    THEN LET base == [rec EXCEPT !.empfehlung = "Warten oder Short-Position schliessen",
                                 !.grund = "Korrektur des Abwaertstrends erwartet",
                                 !.stop_loss = RMul(cp, RiskFactor(rt, 1, 2, 1))]
         IN  IF ~HasTargetPair(pred) THEN base
             ELSE IF cp = R(0) THEN ZeroDivisionError
             ELSE LET swap == RLt(pred.target[1], pred.target[2])
                      target1 == IF swap THEN pred.target[2] ELSE pred.target[1]
                      target2 == IF swap THEN pred.target[1] ELSE pred.target[2]
                  IN  [base EXCEPT
                         !.ziele = <<[preis |-> target1, aenderung |-> ChangeUp(target1, cp)],
                                     [preis |-> target2, aenderung |-> ChangeUp(target2, cp)]>>]
    ELSE rec

\* the action is chosen before the wave is looked at, as in the branch for a
\* wave that may be complete
CorrectionBranch_unguarded(rec, wave, pred, cp, rt) ==
    IF ~HasTwoPoints(wave)
    THEN [rec EXCEPT !.empfehlung = "Gewinne mitnehmen",
                     !.grund = "Korrektur des Aufwaertstrends erwartet"]
    ELSE CorrectionWithWave(rec, wave, pred, cp, rt)

\* main.py:188-238
CorrectionBranch(rec, wave, pred, cp, rt) ==
    IF ~HasTwoPoints(wave) THEN rec
    ELSE CorrectionWithWave(rec, wave, pred, cp, rt)

\* main.py:241-259
CompleteBranch(rec, wave, pred, cp, rt) ==
    LET base == [rec EXCEPT !.empfehlung = "Vorsichtig sein",
                            !.grund = "Moeglicher Trendwechsel, warten auf Bestaetigung"]
    IN  IF ~HasTwoPoints(wave) THEN base
        ELSE IF LastPoint(wave) > SecondLastPoint(wave)
        THEN [base EXCEPT !.stop_loss = RMul(cp, RiskFactor(rt, 1, 2, -1))]
        ELSE [base EXCEPT !.stop_loss = RMul(cp, RiskFactor(rt, 1, 2, 1))]

\* main.py:83-261
get_trade_recommendations(wave, pred, cp, rt) ==
    IF LowConfidence(pred)
    THEN [NeutralRecommendation EXCEPT
            !.grund = "Niedrige Konfidenz in der aktuellen Vorhersage"]
    ELSE IF pred.prediction = TrendContinuation
    THEN TrendBranch(NeutralRecommendation, wave, pred, cp, rt)
    ELSE IF pred.prediction = Correction
    THEN CorrectionBranch(NeutralRecommendation, wave, pred, cp, rt)
    ELSE IF pred.prediction = WaveMayBeComplete
    THEN CompleteBranch(NeutralRecommendation, wave, pred, cp, rt)
    ELSE NeutralRecommendation

-----------------------------------------------------------------------------
(* analyzer.ElliottWaveAnalyzer.backtest                                    *)

MinHistory == 60

\* the value numpy gives for 0.0 / 0
NaN == [nan |-> TRUE]

\* data.iloc[start_idx:end_idx+1] (analyzer.py:198)
BacktestData == SubSeq(data, start_idx + 1, end_idx + 1)

\* the temporary analyzer of day i sees every row of the slice
PricesUpTo_all(i) == BacktestData

\* the prices the temporary analyzer of day i sees (analyzer.py:209)
PricesUpTo(i) == SubSeq(BacktestData, 1, i + 1)

\* analyzer.py:216 and 229
WantsBuy(pred)  == pred.prediction = TrendContinuation /\ RLt(<<1, 2>>, pred.confidence)
WantsSell(pred) == pred.prediction = Correction /\ RLt(<<1, 2>>, pred.confidence)

\* the cash is not looked at before buying
BuyGuard_nocash(sh, ca) == sh.m = <<>>

\* analyzer.py:218
BuyGuard(sh, ca) == sh.m = <<>> /\ FloatLt(FloatOfInt(0), ca)

\* the position is not looked at before selling
SellGuard_always(sh) == TRUE

\* analyzer.py:231
SellGuard(sh) == FloatLt(FloatOfInt(0), sh)

\* what one day of the walk does (analyzer.py:216-240)
DayAction(pred, sh, ca) ==
    IF WantsBuy(pred) THEN (IF BuyGuard(sh, ca) THEN "buy" ELSE "none")
    ELSE IF WantsSell(pred) THEN (IF SellGuard(sh) THEN "sell" ELSE "none")
    ELSE "none"

\* analyzer.py:243
\* the shares held are left out of the equity
Equity_cashonly(ca, sh, price) == ca

\* analyzer.py:243: the product is rounded, then the sum
Equity(ca, sh, price) == FloatAdd(ca, FloatMul(sh, price))

\* the price column holds floats (analyzer.py:211)
TodaysPrice == FloatOfInt(BacktestData[day + 1])

\* the head of the loop: the temporary analyzer's prediction for day i
\* (analyzer.py:207-213)
Predict ==
    /\ bt_pc = "predict"
    /\ day < Len(BacktestData)
    /\ bt_prediction' = predict_next_move(PricesUpTo(day))
    /\ bt_pc' = "decide"
    /\ UNCHANGED <<data, start_idx, end_idx, invest_amount, day, cash, shares, trades,
                   equity_curve, result>>
    /\ UNCHANGED <<zzVars, patVars, recVars, anVars, fwVars, fibVars>>

\* analyzer.py:216-227 and 243-247: the quotient cash / price is rounded,
\* and so is its product with the price, in the trade and in the equity
BuyDay ==
    /\ bt_pc = "decide"
    /\ DayAction(bt_prediction, shares, cash) = "buy"
    /\ shares' = FloatDiv(cash, TodaysPrice)
    /\ cash' = FloatOfInt(0)
    /\ trades' = Append(trades, [date |-> day, action |-> "buy", price |-> TodaysPrice,
                                 shares |-> shares',
                                 value |-> FloatMul(shares', TodaysPrice)])
    /\ equity_curve' = Append(equity_curve,
                              [date |-> day, equity |-> Equity(cash', shares', TodaysPrice)])
    /\ day' = day + 1
    /\ bt_pc' = "predict"
    /\ UNCHANGED <<data, start_idx, end_idx, invest_amount, bt_prediction, result>>
    /\ UNCHANGED <<zzVars, patVars, recVars, anVars, fwVars, fibVars>>

\* analyzer.py:229-247
SellDay ==
    /\ bt_pc = "decide"
    /\ DayAction(bt_prediction, shares, cash) = "sell"
    /\ cash' = FloatMul(shares, TodaysPrice)
    /\ shares' = FloatOfInt(0)
    /\ trades' = Append(trades, [date |-> day, action |-> "sell", price |-> TodaysPrice,
                                 shares |-> shares, value |-> cash'])
    /\ equity_curve' = Append(equity_curve,
                              [date |-> day, equity |-> Equity(cash', shares', TodaysPrice)])
    /\ day' = day + 1
    /\ bt_pc' = "predict"
    /\ UNCHANGED <<data, start_idx, end_idx, invest_amount, bt_prediction, result>>
    /\ UNCHANGED <<zzVars, patVars, recVars, anVars, fwVars, fibVars>>

\* a day without a transition (analyzer.py:243-247)
HoldDay ==
    /\ bt_pc = "decide"
    /\ DayAction(bt_prediction, shares, cash) = "none"
    /\ equity_curve' = Append(equity_curve,
                              [date |-> day, equity |-> Equity(cash, shares, TodaysPrice)])
    /\ day' = day + 1
    /\ bt_pc' = "predict"
    /\ UNCHANGED <<data, start_idx, end_idx, invest_amount, cash, shares, trades,
                   bt_prediction, result>>
    /\ UNCHANGED <<zzVars, patVars, recVars, anVars, fwVars, fibVars>>

\* the walk of analyzer.py:207-247 over a given series, from day i up to but
\* not including day upto, as one function: the trades and the equity
\* points logged so far
RECURSIVE WalkDays(_, _, _, _, _, _, _)
WalkDays(series, i, upto, ca, sh, tr, eq) ==
    IF i >= upto THEN [trades |-> tr, equity_curve |-> eq]
    ELSE LET pred  == predict_next_move(SubSeq(series, 1, i + 1))
             price == FloatOfInt(series[i + 1])
             act   == DayAction(pred, sh, ca)
             sh2   == IF act = "buy" THEN FloatDiv(ca, price)
                      ELSE IF act = "sell" THEN FloatOfInt(0) ELSE sh
             ca2   == IF act = "buy" THEN FloatOfInt(0)
                      ELSE IF act = "sell" THEN FloatMul(sh, price) ELSE ca
             tr2   == IF act = "buy"
                      THEN Append(tr, [date |-> i, action |-> "buy", price |-> price,
                                       shares |-> sh2, value |-> FloatMul(sh2, price)])
                      ELSE IF act = "sell"
                      THEN Append(tr, [date |-> i, action |-> "sell", price |-> price,
                                       shares |-> sh, value |-> ca2])
                      ELSE tr
         IN  WalkDays(series, i + 1, upto, ca2, sh2, tr2,
                      Append(eq, [date |-> i, equity |-> Equity(ca2, sh2, price)]))

\* analyzer.py:262-263
RunningPeak(peak, equity) == IF FloatLt(peak, equity) THEN equity ELSE peak

\* analyzer.py:264
Drawdown(peak, equity) ==
    FloatMul(FloatDiv(FloatSub(peak, equity), peak), FloatOfInt(100))

\* analyzer.py:257-265: the list of drawdowns, from point k on; the peak
\* before the first point is the initial investment
RECURSIVE Drawdowns(_, _, _)
Drawdowns(curve, k, peak) ==
    IF k > Len(curve) THEN <<>>
    ELSE LET pk == RunningPeak(peak, curve[k].equity)
         IN  <<Drawdown(pk, curve[k].equity)>> \o Drawdowns(curve, k + 1, pk)

\* max(s) of a non-empty list: the first of the largest items
RECURSIVE FloatSeqMax(_)
FloatSeqMax(s) ==
    IF Len(s) = 1 THEN s[1]
    ELSE LET best == FloatSeqMax(SubSeq(s, 1, Len(s) - 1))
         IN  IF FloatLt(best, Last(s)) THEN Last(s) ELSE best

\* sum(s): the items added to 0 from left to right
RECURSIVE FloatSeqSum(_)
FloatSeqSum(s) ==
    IF s = <<>> THEN FloatOfInt(0)
    ELSE FloatAdd(FloatSeqSum(SubSeq(s, 1, Len(s) - 1)), Last(s))

\* analyzer.py:267
MaxDrawdown(curve, invest) ==
    IF curve = <<>> THEN FloatOfInt(0) ELSE FloatSeqMax(Drawdowns(curve, 1, invest))

\* analyzer.py:254
TotalReturn(final_equity, initial_equity) ==
    FloatMul(FloatDiv(FloatSub(final_equity, initial_equity), initial_equity),
             FloatOfInt(100))

\* analyzer.py:270-276: the returns of the buy/sell pairs, from entry k on
RECURSIVE TradeReturns(_, _)
TradeReturns(tr, k) ==
    IF k + 1 > Len(tr) THEN <<>>
    ELSE (IF tr[k].action = "buy" /\ tr[k + 1].action = "sell"
          THEN <<FloatMul(FloatDiv(FloatSub(tr[k + 1].value, tr[k].value), tr[k].value),
                          FloatOfInt(100))>>
          ELSE <<>>) \o TradeReturns(tr, k + 2)

\* analyzer.py:250-291 with a positive initial investment
Metrics ==
    LET final_equity == IF equity_curve # <<>> THEN Last(equity_curve).equity
                        ELSE FloatOfInt(invest_amount)
        trade_returns == TradeReturns(trades, 1)
        wins == {k \in 1..Len(trade_returns) : FloatLt(FloatOfInt(0), trade_returns[k])}
    IN  [raised |-> "no",
         initial_investment |-> invest_amount,
         final_equity |-> final_equity,
         total_return |-> TotalReturn(final_equity, FloatOfInt(invest_amount)),
         max_drawdown |-> MaxDrawdown(equity_curve, FloatOfInt(invest_amount)),
         num_trades |-> Len(trades) \div 2,
         win_rate |-> IF trade_returns # <<>>
                      THEN FloatMul(FloatDiv(FloatOfInt(Cardinality(wins)),
                                             FloatOfInt(Len(trade_returns))),
                                    FloatOfInt(100))
                      ELSE FloatOfInt(0),
         avg_trade_return |-> IF trade_returns # <<>>
                              THEN FloatDiv(FloatSeqSum(trade_returns),
                                            FloatOfInt(Len(trade_returns)))
                              ELSE FloatOfInt(0)]

\* analyzer.py:254 and 264 with an initial investment of 0: the division of
\* two Python numbers raises, the division of a numpy float gives nan
MetricsZeroInvestment ==
    IF equity_curve = <<>>
    THEN [raised |-> "ZeroDivisionError"]
    ELSE [raised |-> "no",
          initial_investment |-> invest_amount,
          final_equity |-> Last(equity_curve).equity,
          total_return |-> NaN,
          max_drawdown |-> NaN,
          num_trades |-> Len(trades) \div 2,
          win_rate |-> FloatOfInt(0),
          avg_trade_return |-> FloatOfInt(0)]

\* the end of the walk (analyzer.py:249-291)
Finish ==
    /\ bt_pc = "predict"
    /\ day >= Len(BacktestData)
    /\ result' = IF invest_amount = 0 THEN MetricsZeroInvestment ELSE Metrics
    /\ bt_pc' = "done"
    /\ UNCHANGED <<data, start_idx, end_idx, invest_amount, day, cash, shares, trades,
                   equity_curve, bt_prediction>>
    /\ UNCHANGED <<zzVars, patVars, recVars, anVars, fwVars, fibVars>>

-----------------------------------------------------------------------------
(* utils.calculate_fibonacci_levels                                         *)

FibLevels == {"0.0", "0.236", "0.382", "0.5", "0.618", "0.786", "1.0", "1.272", "1.618"}

\* the extensions are laid upwards whatever the direction of the move
calculate_fibonacci_levels_upward(start, end) ==
    LET diff == end - start
        at(thousandths) == RAdd(R(start), Norm(thousandths * diff, 1000))
        beyond(thousandths) == RAdd(R(end), Norm(thousandths * Abs(diff), 1000))
    IN  [l \in FibLevels |->
            CASE l = "0.0"   -> R(start)
              [] l = "0.236" -> at(236)
              [] l = "0.382" -> at(382)
              [] l = "0.5"   -> at(500)
              [] l = "0.618" -> at(618)
              [] l = "0.786" -> at(786)
              [] l = "1.0"   -> R(end)
              [] l = "1.272" -> beyond(272)
              [] l = "1.618" -> beyond(618)]

\* utils.py:28-55: the dictionary of levels, as a function on the level names
calculate_fibonacci_levels(start, end) ==
    LET diff == end - start
        direction == IF diff > 0 THEN 1 ELSE -1
        at(thousandths) == RAdd(R(start), Norm(thousandths * diff, 1000))
        beyond(thousandths) ==
            RAdd(R(end), Norm(direction * thousandths * Abs(diff), 1000))
    IN  [l \in FibLevels |->
            CASE l = "0.0"   -> R(start)
              [] l = "0.236" -> at(236)
              [] l = "0.382" -> at(382)
              [] l = "0.5"   -> at(500)
              [] l = "0.618" -> at(618)
              [] l = "0.786" -> at(786)
              [] l = "1.0"   -> R(end)
              [] l = "1.272" -> beyond(272)
              [] l = "1.618" -> beyond(618)]

-----------------------------------------------------------------------------
(* Inputs and specifications                                                *)

MaxLen        == 5
MaxPoints     == 6
MaxWavePoints == 3
PrefixLen     == 60
TailLen       == 4
MaxStart      == 1
MaxSeries     == 7
MaxCalls      == 2
MaxHistory    == 6
MaxPriceSteps == 10

SeqsUpTo(S, lo, hi) == UNION {[1..n -> S] : n \in lo..hi}

ZzIdle  == zz_prices = <<>> /\ zz_threshold = 0 /\ turning_points = <<>> /\ zz_pc = "idle"
PatIdle ==
    /\ pattern_type = "none" /\ points = <<>> /\ is_valid = FALSE
    /\ next_target = None /\ pat_pc = "idle"
RecIdle ==
    /\ current_wave = NoWave
    /\ prediction = [prediction |-> Undetermined, confidence |-> <<0, 1>>, target |-> None]
    /\ current_price = R(0)
    /\ risk_tolerance = R(0)
    /\ recommendations = NeutralRecommendation
    /\ rec_pc = "idle"
BtIdle ==
    /\ data = <<>> /\ start_idx = 0 /\ end_idx = 0 /\ invest_amount = 0 /\ day = 0
    /\ cash = FloatOfInt(0) /\ shares = FloatOfInt(0)
    /\ trades = <<>> /\ equity_curve = <<>>
    /\ bt_prediction = [prediction |-> Undetermined, confidence |-> <<0, 1>>, target |-> None]
    /\ result = [raised |-> "no"]
    /\ bt_pc = "idle"
AnIdle ==
    /\ an_prices = <<>> /\ an_threshold = 0 /\ an_window = 0 /\ an_pivots = <<>>
    /\ waves = EmptyWaves /\ an_calls = 0
FwIdle  == fw_prices = <<>> /\ fw_look_back = 0 /\ found_wave = NoWave /\ fw_pc = "idle"
FibIdle == start_price = 0 /\ end_price = 0 /\ levels = <<>> /\ fib_pc = "idle"

(* zigzag_filter on every price list of up to MaxLen prices *)
ZzPrices     == {55, 90, 95, 100, 110}
ZzThresholds == {5, 10, 45}

InitZigzag ==
    /\ zz_prices \in SeqsUpTo(ZzPrices, 1, MaxLen)
    /\ zz_threshold \in ZzThresholds
    /\ turning_points = <<>>
    /\ zz_pc = "call"
    /\ PatIdle /\ RecIdle /\ BtIdle /\ AnIdle /\ FwIdle /\ FibIdle

ZigzagCall ==
    /\ zz_pc = "call"
    /\ turning_points' = zigzag_filter(zz_prices, zz_threshold)
    /\ zz_pc' = "done"
    /\ UNCHANGED <<zz_prices, zz_threshold, patVars, recVars, btVars, anVars, fwVars, fibVars>>

NextZigzag == ZigzagCall
SpecZigzag == InitZigzag /\ [][NextZigzag]_vars

(* WavePattern(pattern_type, points) on every list of up to MaxPoints points *)
PatternTypes  == {"impulse", "corrective", "diagonal", "motive"}
PatternPrices == {100, 110, 120, 200}

PointsOf(prices) == [k \in 1..Len(prices) |-> <<k - 1, prices[k]>>]

InitPattern ==
    /\ pattern_type \in PatternTypes
    /\ \E prices \in SeqsUpTo(PatternPrices, 0, MaxPoints) : points = PointsOf(prices)
    /\ is_valid = FALSE
    /\ next_target = None
    /\ pat_pc = "new"
    /\ ZzIdle /\ RecIdle /\ BtIdle /\ AnIdle /\ FwIdle /\ FibIdle

Construct ==
    /\ pat_pc = "new"
    /\ is_valid' = WavePattern(pattern_type, points).is_valid
    /\ pat_pc' = "built"
    /\ UNCHANGED <<pattern_type, points, next_target, zzVars, recVars, btVars, anVars, fwVars, fibVars>>

\* pattern.get_next_target() on the pattern built
GetNextTarget ==
    /\ pat_pc = "built"
    /\ next_target' = get_next_target([pattern_type |-> pattern_type, points |-> points,
                                        is_valid |-> is_valid])
    /\ pat_pc' = "targeted"
    /\ UNCHANGED <<pattern_type, points, is_valid,
                   zzVars, recVars, btVars, anVars, fwVars, fibVars>>

NextPattern == Construct \/ GetNextTarget
SpecPattern == InitPattern /\ [][NextPattern]_vars

(* get_trade_recommendations on waves of up to MaxWavePoints points *)
WavePrices  == {90, 100, 110}
\* the labels predict_next_move returns (analyzer.py:144-173)
Labels      == {TrendContinuation, Correction, Undetermined}
Confidences == {<<0, 1>>, <<2, 5>>, <<1, 2>>, <<3, 5>>, <<7, 10>>}
\* the last pair lies 0.375 % off the price: a tie of the second decimal
Targets     == {None, <<R(95), R(90)>>, <<R(105), R(112)>>, <<<<803, 8>>, <<797, 8>>>>}
Risks       == {<<1, 50>>, <<1, 10>>}

InitRecommend ==
    /\ \/ current_wave = NoWave
       \/ \E ty \in {"impulse", "corrective"}, prices \in SeqsUpTo(WavePrices, 0, MaxWavePoints) :
             current_wave = [type |-> ty, points |-> PointsOf(prices), next_target |-> None]
    /\ prediction \in [prediction : Labels, confidence : Confidences, target : Targets]
    /\ current_price = R(100)
    /\ risk_tolerance \in Risks
    /\ recommendations = NeutralRecommendation
    /\ rec_pc = "call"
    /\ ZzIdle /\ PatIdle /\ BtIdle /\ AnIdle /\ FwIdle /\ FibIdle

Recommend ==
    /\ rec_pc = "call"
    /\ recommendations' =
          get_trade_recommendations(current_wave, prediction, current_price, risk_tolerance)
    /\ rec_pc' = "done"
    /\ UNCHANGED <<current_wave, prediction, current_price, risk_tolerance,
                   zzVars, patVars, btVars, anVars, fwVars, fibVars>>

NextRecommend == Recommend
SpecRecommend == InitRecommend /\ [][NextRecommend]_vars

(* backtest over series made of a periodic history of PrefixLen rows and  *)
(* TailLen further rows, each a step away from the row before             *)
Flat     == <<50>>
\* steps above the zigzag threshold, at prices where 100 / price * price
\* falls below 100 in binary64
Stair    == <<87, 92, 89, 97, 93, 100>>
Patterns == {Flat, Stair}
Deltas   == {-3, 0, 8}

RECURSIVE Walk(_, _, _)
Walk(from, steps, k) ==
    IF k > Len(steps) THEN <<>>
    ELSE <<from + steps[k]>> \o Walk(from + steps[k], steps, k + 1)

Series(pattern, phase, steps) ==
    LET prefix == [k \in 1..PrefixLen |-> pattern[((k - 1 + phase) % Len(pattern)) + 1]]
    IN  prefix \o Walk(prefix[PrefixLen], steps, 1)

InitBacktest(investments) ==
    /\ \E pattern \in Patterns :
          \E phase \in 0..(Len(pattern) - 1), steps \in [1..TailLen -> Deltas] :
             data = Series(pattern, phase, steps)
    /\ start_idx \in 0..MaxStart
    \* an empty window, windows that end before or just after the first
    \* walked day, and the window that runs to the last row
    /\ end_idx \in {start_idx - 1, PrefixLen - 1, PrefixLen, PrefixLen + TailLen - 1}
    /\ invest_amount \in investments
    /\ day = MinHistory
    /\ cash = FloatOfInt(invest_amount)
    /\ shares = FloatOfInt(0)
    /\ trades = <<>>
    /\ equity_curve = <<>>
    /\ bt_prediction = [prediction |-> Undetermined, confidence |-> <<0, 1>>, target |-> None]
    /\ result = [raised |-> "no"]
    /\ bt_pc = "predict"
    /\ ZzIdle /\ PatIdle /\ RecIdle /\ AnIdle /\ FwIdle /\ FibIdle

\* the backtest with a positive initial investment
Init == InitBacktest({100})
Next == Predict \/ BuyDay \/ SellDay \/ HoldDay \/ Finish
Spec == Init /\ [][Next]_vars

\* the backtest with any initial investment, 0 included
InitAnyInvestment == InitBacktest({0, 100})
SpecAnyInvestment == InitAnyInvestment /\ [][Next]_vars

(* analyze, called MaxCalls times on one analyzer over up to MaxSeries prices *)
AnPrices     == {100, 104, 110}
AnThresholds == {3, 5}
AnWindows    == {0, 1, 2}

InitAnalyze ==
    /\ an_prices \in SeqsUpTo(AnPrices, 1, MaxSeries)
    /\ an_threshold \in AnThresholds
    /\ an_window \in AnWindows
    /\ an_pivots = <<>>
    /\ waves = EmptyWaves
    /\ an_calls = 0
    /\ ZzIdle /\ PatIdle /\ RecIdle /\ BtIdle /\ FwIdle /\ FibIdle

Analyze ==
    /\ an_calls < MaxCalls
    /\ IF AnalyzeRaises(an_prices, an_threshold, an_window)
       THEN UNCHANGED <<an_pivots, waves>>
       ELSE /\ an_pivots' = AnalyzePivots(an_prices, an_threshold, an_window)
            /\ waves' = analyze(waves, an_prices, an_threshold, an_window)
    /\ an_calls' = an_calls + 1
    /\ UNCHANGED <<an_prices, an_threshold, an_window,
                   zzVars, patVars, recVars, btVars, fwVars, fibVars>>

NextAnalyze == Analyze
SpecAnalyze == InitAnalyze /\ [][NextAnalyze]_vars

(* find_current_wave over up to MaxHistory prices: the default look_back,  *)
(* shorter ones, and look_back <= 0, where prices[-look_back:] is a slice  *)
(* from the front                                                          *)
FwPrices  == {100, 104, 110, 120}
LookBacks == {-1, 0, 4, 6, LookBack}

InitWave ==
    /\ fw_prices \in SeqsUpTo(FwPrices, 1, MaxHistory)
    /\ fw_look_back \in LookBacks
    /\ found_wave = NoWave
    /\ fw_pc = "call"
    /\ ZzIdle /\ PatIdle /\ RecIdle /\ BtIdle /\ AnIdle /\ FibIdle

FindCurrentWave ==
    /\ fw_pc = "call"
    /\ found_wave' = find_current_wave(fw_prices, fw_look_back)
    /\ fw_pc' = "done"
    /\ UNCHANGED <<fw_prices, fw_look_back,
                   zzVars, patVars, recVars, btVars, anVars, fibVars>>

NextWave == FindCurrentWave
SpecWave == InitWave /\ [][NextWave]_vars

(* calculate_fibonacci_levels on every pair of prices                      *)
FibPrices == {20 * k : k \in 1..MaxPriceSteps}

InitFib ==
    /\ start_price \in FibPrices
    /\ end_price \in FibPrices
    /\ levels = <<>>
    /\ fib_pc = "call"
    /\ ZzIdle /\ PatIdle /\ RecIdle /\ BtIdle /\ AnIdle /\ FwIdle

Fibonacci ==
    /\ fib_pc = "call"
    /\ levels' = calculate_fibonacci_levels(start_price, end_price)
    /\ fib_pc' = "done"
    /\ UNCHANGED <<start_price, end_price,
                   zzVars, patVars, recVars, btVars, anVars, fwVars>>

NextFib == Fibonacci
SpecFib == InitFib /\ [][NextFib]_vars

-----------------------------------------------------------------------------
(* Properties of zigzag_filter                                              *)

StrictlyIncreasing(s) == \A k \in 1..(Len(s) - 1) : s[k] < s[k + 1]

\* C1: for every non-empty price list and every threshold > 0 the pivot
\* indices zigzag_filter returns are strictly increasing (no index twice)
\* and the first one is 0.
C1_PivotsStrictlyIncreasing ==
    zz_pc = "done" => turning_points[1] = 0 /\ StrictlyIncreasing(turning_points)

\* C6, as stated: for every increasing price list and every threshold > 0
\* zigzag_filter returns exactly the two pivots 0 and the last index.
C6_IncreasingGivesTwoPivots ==
    (zz_pc = "done" /\ StrictlyIncreasing(zz_prices))
        => turning_points = <<0, Len(zz_prices) - 1>>

NonDecreasing(s) == \A k \in 1..(Len(s) - 1) : s[k] <= s[k + 1]

\* 0-based index of the first occurrence of the largest price
FirstIndexOfMax(prices) ==
    (CHOOSE k \in 1..Len(prices) :
        /\ \A j \in 1..Len(prices) : prices[j] <= prices[k]
        /\ \A j \in 1..(k - 1) : prices[j] < prices[k]) - 1

\* C6, amended: for every non-decreasing price list and every threshold > 0
\* zigzag_filter returns <<0>> when all prices are equal (a single price
\* included) and otherwise <<0, first index of the highest price>>; for a
\* strictly increasing list of at least two prices that is <<0, last index>>.
C6_NonDecreasingPivots ==
    /\ (zz_pc = "done" /\ NonDecreasing(zz_prices))
          => turning_points = IF zz_prices[Len(zz_prices)] = zz_prices[1]
                              THEN <<0>>
                              ELSE <<0, FirstIndexOfMax(zz_prices)>>
    /\ (zz_pc = "done" /\ Len(zz_prices) >= 2 /\ StrictlyIncreasing(zz_prices))
          => turning_points = <<0, Len(zz_prices) - 1>>

C6_Witness ==
    /\ zz_pc = "done"
    /\ Len(zz_prices) >= 3
    /\ StrictlyIncreasing(zz_prices)
    /\ turning_points = <<0, Len(zz_prices) - 1>>

\* the list falls from its first price to index d, by more than the
\* threshold fraction of the first price, and rises from there to its end,
\* by more than the threshold fraction of the low
SingleDipAt(prices, threshold, d) ==
    /\ 1 <= d /\ d <= Len(prices) - 2
    /\ \A k \in 1..d : prices[k + 1] < prices[k]
    /\ \A k \in (d + 1)..(Len(prices) - 1) : prices[k + 1] > prices[k]
    /\ 100 * prices[d + 1] < prices[1] * (100 - threshold)
    /\ 100 * prices[Len(prices)] > prices[d + 1] * (100 + threshold)

\* C7: for a price list with a single dip of the threshold fraction from the
\* running high, followed by a recovery, zigzag_filter returns exactly three
\* pivots: the start, the dip and the end of the recovery.
C7_SingleDipGivesThreePivots ==
    zz_pc = "done" =>
        \A d \in 1..Len(zz_prices) :
            SingleDipAt(zz_prices, zz_threshold, d)
                => turning_points = <<0, d, Len(zz_prices) - 1>>

-----------------------------------------------------------------------------
(* Properties of WavePattern                                                *)

\* C8: an impulse pattern built from any point list in which the price of
\* point 2 is at most the price of point 0 is invalid, whatever the other
\* points are.
C8_Wave2BelowOriginInvalid ==
    (pat_pc = "built" /\ pattern_type = "impulse" /\ Len(points) >= 3
        /\ points[3][2] <= points[1][2])
        => is_valid = FALSE

C8_Witness ==
    /\ pat_pc = "built" /\ pattern_type = "impulse" /\ Len(points) = 6
    /\ points[3][2] = points[1][2]
    /\ points[5][2] > points[3][2]
    /\ points[6][2] > points[5][2]
    /\ is_valid = FALSE

-----------------------------------------------------------------------------
(* Properties of get_trade_recommendations                                  *)

IsNeutral(rec) ==
    /\ rec.raised = "no"
    /\ rec.empfehlung = "Neutral"
    /\ rec.ziele = <<>>
    /\ rec.stop_loss = None
    /\ rec.risk_reward = <<>>

\* C9: with a confidence below 0.5 the recommendation is Neutral, with no
\* targets, no stop-loss and no risk/reward ratios, for every wave, label,
\* price and risk tolerance.
C9_LowConfidenceNeutral ==
    (rec_pc = "done" /\ RLt(prediction.confidence, <<1, 2>>)) => IsNeutral(recommendations)

C9_Witness ==
    /\ rec_pc = "done"
    /\ prediction.confidence = <<2, 5>>
    /\ prediction.prediction = TrendContinuation
    /\ Len(prediction.target) = 2
    /\ Len(current_wave.points) >= 2
    /\ LastPoint(current_wave) > SecondLastPoint(current_wave)
    /\ IsNeutral(recommendations)

\* C10: without a current wave the recommendation is Neutral, for every
\* prediction label and every confidence.
C10_NoWaveNeutral ==
    (rec_pc = "done" /\ current_wave.type = "None") => recommendations.empfehlung = "Neutral"

\* no wave, a correction expected with confidence 0.7 and a target pair
C10_Witness ==
    /\ rec_pc = "done"
    /\ current_wave.type = "None"
    /\ prediction.prediction = Correction
    /\ prediction.confidence = <<7, 10>>
    /\ Len(prediction.target) = 2
    /\ IsNeutral(recommendations)

-----------------------------------------------------------------------------
(* Properties of backtest                                                   *)

\* C2: at every point of a backtest walk the trade log alternates buy, sell,
\* buy, sell, ...: its first entry is a buy and no two consecutive entries
\* have the same action.
C2_TradesAlternate ==
    /\ Len(trades) >= 1 => trades[1].action = "buy"
    /\ \A k \in 1..(Len(trades) - 1) : trades[k].action # trades[k + 1].action
    /\ \A k \in 1..Len(trades) : trades[k].action \in {"buy", "sell"}

C2_Witness ==
    /\ Len(trades) >= 3
    /\ trades[1].action = "buy"
    /\ trades[2].action = "sell"
    /\ trades[3].action = "buy"

\* a float that is 0.0 or -0.0
IsZero(x) == x.m = <<>>

Bought == Len(trades') = Len(trades) + 1 /\ Last(trades').action = "buy"
Sold   == Len(trades') = Len(trades) + 1 /\ Last(trades').action = "sell"

\* C3, as stated: on every day of the walk a buy is logged exactly when no
\* shares are held and the day's prediction is trend continuation with
\* confidence > 0.5, and it turns all cash into shares at the day's price; a
\* sell is logged exactly when shares are held and the prediction is
\* correction with confidence > 0.5, and it turns all shares into cash; on
\* every other day cash and shares are unchanged.
C3_TradeExactlyOnSignal ==
    [][ bt_pc = "decide" =>
          LET pred  == predict_next_move(PricesUpTo(day))
              price == FloatOfInt(BacktestData[day + 1])
          IN  /\ Bought <=> (IsZero(shares) /\ WantsBuy(pred))
              /\ Bought => (shares' = FloatDiv(cash, price) /\ IsZero(cash'))
              /\ Sold <=> (FloatLt(FloatOfInt(0), shares) /\ WantsSell(pred))
              /\ Sold => (cash' = FloatMul(shares, price) /\ IsZero(shares'))
              /\ (~Bought /\ ~Sold) =>
                    (cash' = cash /\ shares' = shares /\ trades' = trades) ]_vars

\* C3, amended: a buy is logged exactly when no shares are held, the cash is
\* positive and the day's prediction is trend continuation with confidence
\* > 0.5, and it turns all cash into shares at the day's price; a sell is
\* logged exactly when shares are held and the prediction is correction with
\* confidence > 0.5, and it turns all shares into cash; on every other day
\* cash, shares and the trade log are unchanged.
C3_TradeExactlyOnSignalWithCash ==
    [][ bt_pc = "decide" =>
          LET pred  == predict_next_move(PricesUpTo(day))
              price == FloatOfInt(BacktestData[day + 1])
          IN  /\ Bought <=> (IsZero(shares) /\ FloatLt(FloatOfInt(0), cash) /\ WantsBuy(pred))
              /\ Bought => (shares' = FloatDiv(cash, price) /\ IsZero(cash'))
              /\ Sold <=> (FloatLt(FloatOfInt(0), shares) /\ WantsSell(pred))
              /\ Sold => (cash' = FloatMul(shares, price) /\ IsZero(shares'))
              /\ (~Bought /\ ~Sold) =>
                    (cash' = cash /\ shares' = shares /\ trades' = trades) ]_vars

\* a walk that has bought, sold and sat out at least one day
C3_Witness ==
    /\ Len(trades) >= 2
    /\ trades[1].action = "buy" /\ trades[2].action = "sell"
    /\ trades[1].shares = FloatDiv(FloatOfInt(invest_amount), trades[1].price)
    /\ trades[2].value = FloatMul(trades[1].shares, trades[2].price)
    /\ Len(equity_curve) > Len(trades)
    /\ IsZero(shares) /\ cash = trades[2].value

AllEqual(s) == \A k \in 1..Len(s) : s[k] = s[1]

\* C4: a backtest over a price series whose prices are all equal, for any
\* window, logs no trade and returns num_trades = 0 and total_return = 0.
C4_FlatSeriesNoTrades ==
    (bt_pc = "done" /\ AllEqual(data)) =>
        /\ trades = <<>>
        /\ result.raised = "no"
        /\ result.num_trades = 0
        /\ result.total_return \in {FloatOfInt(0), [FloatOfInt(0) EXCEPT !.neg = TRUE]}

\* the claim with a positive investment: the walk of a flat series holds
\* its cash on every day, and the return is 0
C4_FlatSeriesWithInvestment ==
    (bt_pc = "done" /\ AllEqual(data) /\ invest_amount > 0) =>
        /\ trades = <<>>
        /\ result.num_trades = 0
        /\ IsZero(result.total_return)
        /\ \A k \in 1..Len(equity_curve) :
               equity_curve[k].equity = FloatOfInt(invest_amount)

EquityNonDecreasing ==
    \A k \in 1..(Len(equity_curve) - 1) :
        ~FloatLt(equity_curve[k + 1].equity, equity_curve[k].equity)

\* C5: for every backtest with a positive investment and positive prices
\* max_drawdown is >= 0, and it is 0 whenever the recorded equity curve is
\* non-decreasing.
C5_DrawdownNonNegative ==
    (bt_pc = "done" /\ invest_amount > 0) =>
        /\ ~FloatLt(result.max_drawdown, FloatOfInt(0))
        /\ EquityNonDecreasing => IsZero(result.max_drawdown)

\* what holds of the drawdown: it is never negative, and it is 0 when the
\* curve is non-decreasing and starts at the initial investment or above
C5_DrawdownFromInvestment ==
    (bt_pc = "done" /\ invest_amount > 0) =>
        /\ ~FloatLt(result.max_drawdown, FloatOfInt(0))
        /\ (/\ EquityNonDecreasing
            /\ equity_curve # <<>> =>
                  ~FloatLt(equity_curve[1].equity, FloatOfInt(invest_amount)))
              => IsZero(result.max_drawdown)

-----------------------------------------------------------------------------
(* Properties of predict_next_move                                          *)

\* C11: the prediction of a day is {unbestimmt, 0, no target} when
\* find_current_wave finds no wave, {Korrektur erwartet, 0.7, the wave's
\* projection} when the current wave is an impulse and {Trendfortsetzung
\* erwartet, 0.6, the wave's projection} when it is corrective; no other
\* label or confidence is produced.
C11_PredictionFollowsWave ==
    bt_pc = "decide" =>
        LET wave == find_current_wave(PricesUpTo(day), LookBack)
            projection == get_next_target(WavePattern(wave.type, wave.points))
        IN  /\ wave.type = "None" =>
                 bt_prediction = [prediction |-> Undetermined, confidence |-> <<0, 1>>,
                                  target |-> None]
            /\ wave.type = "impulse" =>
                 bt_prediction = [prediction |-> Correction, confidence |-> <<7, 10>>,
                                  target |-> projection]
            /\ wave.type = "corrective" =>
                 bt_prediction = [prediction |-> TrendContinuation, confidence |-> <<3, 5>>,
                                  target |-> projection]
            /\ <<bt_prediction.prediction, bt_prediction.confidence>> \in
                 {<<Undetermined, <<0, 1>>>>, <<Correction, <<7, 10>>>>,
                  <<TrendContinuation, <<3, 5>>>>}

C11_Witness ==
    /\ bt_pc = "decide"
    /\ bt_prediction.prediction = Correction
    /\ bt_prediction.confidence = <<7, 10>>
    /\ Len(bt_prediction.target) = 2
    /\ find_current_wave(PricesUpTo(day), LookBack).type = "impulse"

\* days on which the other two cases of predict_next_move happen
C11_WitnessCorrective ==
    /\ bt_pc = "decide"
    /\ bt_prediction.prediction = TrendContinuation
    /\ Len(bt_prediction.target) = 2

C11_WitnessNoWave ==
    /\ bt_pc = "decide"
    /\ bt_prediction.prediction = Undetermined
    /\ find_current_wave(PricesUpTo(day), LookBack).type = "None"

-----------------------------------------------------------------------------
(* Properties of analyze                                                    *)

\* C12: analyze scans the pivot list exhaustively: a valid impulse on any
\* window [i..i+5] is recorded, and a corrective is attempted on every
\* window [i..i+3], so that n >= 4 pivots give n - 3 corrective records, the
\* i-th on the pivots i..i+3.
C12_ScanIsExhaustive ==
    an_calls = 1 =>
        LET n == Len(an_pivots)
        IN  /\ \A i \in 0..(n - 6) :
                  WavePattern("impulse", PointsAt(an_prices, Slice(an_pivots, i, i + 6))).is_valid
                     => \E k \in 1..Len(waves.impulse) :
                           waves.impulse[k].indices = Slice(an_pivots, i, i + 6)
            /\ n >= 4 =>
                  /\ Len(waves.corrective) = n - 3
                  /\ \A i \in 1..(n - 3) :
                        waves.corrective[i].indices = Slice(an_pivots, i - 1, i + 3)

\* C13: a second analyze call on the same analyzer with the same parameters
\* returns what a single call returns; no record of the first call is left
\* in the result of the second.
C13_AnalyzeTwiceSameAsOnce ==
    (an_calls = 2 /\ ~AnalyzeRaises(an_prices, an_threshold, an_window))
        => waves = analyze(EmptyWaves, an_prices, an_threshold, an_window)

-----------------------------------------------------------------------------
(* Properties of get_next_target                                            *)

\* the pair (p5 - d*0.382*|p5 - p0|, p5 - d*0.618*|p5 - p0|)
Retracement(p0, p5, d) ==
    <<RSub(R(p5), Norm(d * 382 * Abs(p5 - p0), 1000)),
      RSub(R(p5), Norm(d * 618 * Abs(p5 - p0), 1000))>>

IsValidSixPointImpulse ==
    /\ pat_pc = "targeted" /\ pattern_type = "impulse" /\ Len(points) = 6 /\ is_valid

\* C14, as stated: for a valid 6-point impulse get_next_target returns
\* (p5 - d*0.382*|p5-p0|, p5 - d*0.618*|p5-p0|) with d the direction of the
\* last leg, p4 to p5; (161.8, 138.2) for p0 = 100, p5 = 200.
C14_TargetAgainstLastLeg ==
    IsValidSixPointImpulse =>
        LET p0 == points[1][2]
            p4 == points[5][2]
            p5 == points[6][2]
        IN  next_target = Retracement(p0, p5, IF p5 > p4 THEN 1 ELSE -1)

\* C14, amended: for a valid 6-point impulse get_next_target returns
\* (p5 - d*0.382*|p5-p0|, p5 - d*0.618*|p5-p0|) with d = +1 when p5 > p0 and
\* -1 otherwise, the direction of the whole move p0 to p5; (161.8, 138.2)
\* for p0 = 100, p5 = 200.
C14_TargetAgainstWholeMove ==
    IsValidSixPointImpulse =>
        LET p0 == points[1][2]
            p5 == points[6][2]
        IN  /\ next_target = Retracement(p0, p5, IF p5 > p0 THEN 1 ELSE -1)
            /\ (p0 = 100 /\ p5 = 200) => next_target = <<<<809, 5>>, <<691, 5>>>>

\* an impulse that ends above its origin on a falling last leg
C14_Witness ==
    /\ IsValidSixPointImpulse
    /\ points[6][2] > points[1][2]
    /\ points[6][2] < points[5][2]
    /\ next_target = Retracement(points[1][2], points[6][2], 1)

C14_WitnessExample ==
    /\ IsValidSixPointImpulse
    /\ points[1][2] = 100 /\ points[6][2] = 200
    /\ next_target = <<<<809, 5>>, <<691, 5>>>>

-----------------------------------------------------------------------------
(* Properties of find_current_wave                                          *)

\* C15: every point (idx, price) find_current_wave returns has 0 <= idx < N,
\* idx is the position in the full series of the pivot found in the last
\* look_back prices, and price is the price of the series at idx; for every
\* series length N, N < look_back included. (The call does not raise.)
C15_PointsCarryAbsoluteIndex ==
    fw_pc = "done" =>
        LET N == Len(fw_prices)
            first == IF N > fw_look_back THEN N - fw_look_back ELSE 0
            window == LastN(fw_prices, fw_look_back)
            pivots == IF window = <<>> THEN <<>> ELSE zigzag_filter(window, FindThreshold)
        IN  /\ found_wave.type # "IndexError"
            /\ found_wave.type # "None" =>
                  /\ Len(found_wave.points) = Len(pivots)
                  /\ \A k \in 1..Len(pivots) :
                        LET idx == found_wave.points[k][1]
                        IN  /\ 0 <= idx /\ idx < N
                            /\ idx = first + pivots[k]
                            /\ found_wave.points[k][2] = fw_prices[idx + 1]

-----------------------------------------------------------------------------
(* Properties of get_trade_recommendations: the buy recommendation          *)

TrendWithConfidence ==
    /\ rec_pc = "done"
    /\ prediction.prediction = TrendContinuation
    /\ ~RLt(prediction.confidence, <<1, 2>>)

TargetPrices(rec) == [k \in 1..Len(rec.ziele) |-> rec.ziele[k].preis]

\* C16, as stated: with a trend-continuation prediction of confidence >= 0.5
\* whose target lies above the current price the recommendation is to buy,
\* the stop-loss is current price * (1 - risk tolerance) and the targets are
\* (near, far) of the prediction.
C16_BuyStopIsPercentStop ==
    (TrendWithConfidence /\ Len(prediction.target) = 2
        /\ RLt(current_price, prediction.target[1]))
        => /\ recommendations.empfehlung = "Kaufen"
           /\ recommendations.stop_loss = RMul(current_price, RSub(R(1), risk_tolerance))
           /\ TargetPrices(recommendations) = prediction.target

\* C16, amended: with a trend-continuation prediction of confidence >= 0.5
\* and a current wave of at least two points whose last point is above the
\* one before, the recommendation is to buy; the stop-loss is the larger of
\* current price * (1 - risk tolerance) and the lowest of the last three
\* wave points (with two points: current price * (1 - 1.5 * risk
\* tolerance)); when the prediction has a target pair the targets are that
\* pair, in its order, wherever it lies.
C16_BuyStopIsLargerOfWaveLowAndPercentStop ==
    (TrendWithConfidence /\ current_wave.type # "None" /\ Len(current_wave.points) >= 2
        /\ Last(current_wave.points)[2] >
              current_wave.points[Len(current_wave.points) - 1][2])
        => LET n == Len(current_wave.points)
               percent_stop == RMul(current_price, RSub(R(1), risk_tolerance))
               wave_low ==
                   IF n >= 3
                   THEN R(SetMin({current_wave.points[k][2] : k \in (n - 2)..n}))
                   ELSE RMul(current_price, RSub(R(1), RMul(<<3, 2>>, risk_tolerance)))
           IN  /\ recommendations.empfehlung = "Kaufen"
               /\ recommendations.stop_loss =
                     IF RLt(wave_low, percent_stop) THEN percent_stop ELSE wave_low
               /\ Len(prediction.target) = 2 =>
                     TargetPrices(recommendations) = prediction.target
               /\ Len(prediction.target) # 2 => recommendations.ziele = <<>>

\* a buy whose stop-loss is the wave low, above the percent stop
C16_Witness ==
    /\ TrendWithConfidence
    /\ Len(current_wave.points) = 3
    /\ recommendations.empfehlung = "Kaufen"
    /\ recommendations.stop_loss = R(100)
    /\ RLt(RMul(current_price, RSub(R(1), risk_tolerance)), recommendations.stop_loss)
    /\ TargetPrices(recommendations) = <<R(105), R(112)>>

\* a buy whose stop-loss is the percent stop
C16_WitnessPercentStop ==
    /\ TrendWithConfidence
    /\ recommendations.empfehlung = "Kaufen"
    /\ recommendations.stop_loss = RMul(current_price, RSub(R(1), risk_tolerance))

-----------------------------------------------------------------------------
(* Properties of backtest: faults, short slices, equity curve               *)

\* C17: no ratio of the backtest propagates a division by zero: with an
\* initial investment of 0 the backtest returns a result, and the ratios
\* that divide by the investment are 0 in it.
C17_NoDivisionFault ==
    (bt_pc = "done" /\ invest_amount = 0)
        => /\ result.raised = "no"
           /\ result.total_return = FloatOfInt(0)
           /\ result.max_drawdown = FloatOfInt(0)

\* C18: a backtest over a slice of at most 60 rows, the empty slice
\* included, does not raise and returns an empty trade log, an empty equity
\* curve, final_equity = the initial investment and total_return,
\* max_drawdown, num_trades, win_rate and avg_trade_return all 0.
C18_ShortSliceEmptyResult ==
    (bt_pc = "done" /\ Len(BacktestData) <= MinHistory)
        => /\ result.raised = "no"
           /\ trades = <<>>
           /\ equity_curve = <<>>
           /\ result.final_equity = FloatOfInt(invest_amount)
           /\ result.total_return = FloatOfInt(0)
           /\ result.max_drawdown = FloatOfInt(0)
           /\ result.num_trades = 0
           /\ result.win_rate = FloatOfInt(0)
           /\ result.avg_trade_return = FloatOfInt(0)

\* the claim with a positive investment, on slices of 0 to 60 rows
C18_ShortSliceWithInvestment ==
    (bt_pc = "done" /\ Len(BacktestData) <= MinHistory /\ invest_amount > 0)
        => /\ result.raised = "no"
           /\ trades = <<>>
           /\ equity_curve = <<>>
           /\ result.final_equity = FloatOfInt(invest_amount)
           /\ IsZero(result.total_return)
           /\ IsZero(result.max_drawdown)
           /\ result.num_trades = 0
           /\ IsZero(result.win_rate)
           /\ IsZero(result.avg_trade_return)

\* C19: the backtest records exactly one equity point for every walked day,
\* offset 60 to the end of the slice, transition or not; the point of a day
\* is cash + shares * the day's price after the day's transition; a slice
\* of n rows ends with max(0, n - 60) points.
C19_OneEquityPointPerDay ==
    bt_pc \in {"predict", "decide", "done"} =>
        /\ Len(equity_curve) = day - MinHistory
        /\ \A k \in 1..Len(equity_curve) : equity_curve[k].date = MinHistory + k - 1
        /\ (bt_pc # "decide" /\ equity_curve # <<>>) =>
              Last(equity_curve).equity =
                  FloatAdd(cash, FloatMul(shares, FloatOfInt(BacktestData[day])))
        /\ bt_pc = "done" =>
              Len(equity_curve) = IF Len(BacktestData) > MinHistory
                                  THEN Len(BacktestData) - MinHistory ELSE 0

\* a finished walk with days of buying, selling and holding
C19_Witness ==
    /\ bt_pc = "done"
    /\ Len(trades) >= 2
    /\ Len(equity_curve) = Len(BacktestData) - MinHistory
    /\ Len(equity_curve) > Len(trades)
    /\ \E k \in 1..Len(equity_curve) : equity_curve[k].equity # FloatOfInt(invest_amount)

\* a day on which shares are held when the point is recorded
C19_WitnessHolding ==
    /\ bt_pc = "predict"
    /\ FloatLt(FloatOfInt(0), shares)
    /\ equity_curve # <<>>
    /\ Last(equity_curve).equity = FloatMul(shares, FloatOfInt(BacktestData[day]))

-----------------------------------------------------------------------------
(* Properties of calculate_fibonacci_levels                                 *)

\* C20: for every start and end price level "0.5" is start + 0.5 * (end -
\* start) and level "1.618" is end + 0.618 * (end - start), the extension
\* continuing in the direction from start to end: 150 and 261.8 for start
\* 100 and end 200, below the end price when end < start.
C20_FibonacciLevels ==
    fib_pc = "done" =>
        /\ levels["0.5"] = RAdd(R(start_price), Norm(end_price - start_price, 2))
        /\ levels["1.618"] = RAdd(R(end_price), Norm(618 * (end_price - start_price), 1000))
        /\ (start_price = 100 /\ end_price = 200) =>
              levels["0.5"] = R(150) /\ levels["1.618"] = <<1309, 5>>
        /\ end_price < start_price => RLt(levels["1.618"], R(end_price))

C20_Witness ==
    /\ fib_pc = "done"
    /\ start_price = 100 /\ end_price = 200
    /\ levels["0.5"] = R(150)
    /\ levels["1.618"] = <<1309, 5>>

C20_WitnessFalling ==
    /\ fib_pc = "done"
    /\ start_price = 200 /\ end_price = 100
    /\ levels["1.618"] = <<191, 5>>

-----------------------------------------------------------------------------
(* Properties of zigzag_filter: reversals                                   *)

\* the loop's variables once the first k prices have been looked at
StateAfter(prices, threshold, k) ==
    ZigzagLoop(ZigzagStart(prices), SubSeq(prices, 1, k), 1, threshold)

Elements(s) == {s[k] : k \in 1..Len(s)}

\* C21: zigzag_filter emits the running extreme's index as a pivot and flips
\* direction whenever the price reverses by at least the threshold fraction
\* from the running extreme, a reversal of exactly the threshold fraction
\* included.
C21_ReversalAtLeastThreshold ==
    zz_pc = "done" =>
        \A i \in 1..(Len(zz_prices) - 1) :
            LET st == StateAfter(zz_prices, zz_threshold, i)
                nx == StateAfter(zz_prices, zz_threshold, i + 1)
                p  == zz_prices[i + 1]
                emitted == /\ nx.up_trend # st.up_trend
                           /\ nx.turning_points =
                                 Append(st.turning_points, st.last_extreme_idx)
                           /\ st.last_extreme_idx \in Elements(turning_points)
            IN  /\ (st.up_trend /\ 100 * p <= st.last_extreme * (100 - zz_threshold))
                      => emitted
                /\ (~st.up_trend /\ 100 * p >= st.last_extreme * (100 + zz_threshold))
                      => emitted

\* C22: the pivots alternate between local highs and local lows: of three
\* consecutive pivots a, b, c the price at b is strictly above the prices
\* at a and c, or strictly below both.
C22_PivotsAlternate ==
    zz_pc = "done" =>
        \A k \in 1..(Len(turning_points) - 2) :
            LET pa == zz_prices[turning_points[k] + 1]
                pb == zz_prices[turning_points[k + 1] + 1]
                pc == zz_prices[turning_points[k + 2] + 1]
            IN  (pb > pa /\ pb > pc) \/ (pb < pa /\ pb < pc)

\* no price lies the threshold fraction or more below the highest price
\* before it
NoReversal(prices, threshold) ==
    \A i \in 2..Len(prices) :
        \A j \in 1..(i - 1) : 100 * prices[i] > prices[j] * (100 - threshold)

\* C23, as stated: for every list of at least two prices without a reversal
\* of at least the threshold fraction zigzag_filter returns exactly the
\* first and the last index.
C23_NoReversalFirstAndLast ==
    (zz_pc = "done" /\ Len(zz_prices) >= 2 /\ NoReversal(zz_prices, zz_threshold))
        => turning_points = <<0, Len(zz_prices) - 1>>

\* C23, amended: for every price list without a reversal of at least the
\* threshold fraction zigzag_filter returns the first index, followed by
\* the first index of the highest price when that is not the first index.
C23_NoReversalFirstAndHighest ==
    (zz_pc = "done" /\ NoReversal(zz_prices, zz_threshold))
        => turning_points = IF FirstIndexOfMax(zz_prices) = 0
                            THEN <<0>>
                            ELSE <<0, FirstIndexOfMax(zz_prices)>>

\* a list that falls slowly and never rises: only the first index is returned
C23_Witness ==
    /\ zz_pc = "done"
    /\ Len(zz_prices) >= 3
    /\ \A k \in 1..(Len(zz_prices) - 1) : zz_prices[k + 1] <= zz_prices[k]
    /\ zz_prices[Len(zz_prices)] < zz_prices[1]
    /\ NoReversal(zz_prices, zz_threshold)
    /\ turning_points = <<0>>

\* a list that drifts up and ends below its highest price
C23_WitnessDrift ==
    /\ zz_pc = "done"
    /\ NoReversal(zz_prices, zz_threshold)
    /\ Len(turning_points) = 2
    /\ turning_points[2] < Len(zz_prices) - 1

-----------------------------------------------------------------------------
(* Properties of validate_impulse_wave                                      *)

IsValidImpulse ==
    pat_pc \in {"built", "targeted"} /\ pattern_type = "impulse" /\ is_valid

\* C24: in every valid impulse the end of wave 4, p4, does not lie inside
\* the price range between p0 and p2, the territory of wave 1.
C24_Wave4OutsideWave1 ==
    IsValidImpulse =>
        LET p0 == points[1][2]
            p2 == points[3][2]
            p4 == points[5][2]
        IN  ~(p0 < p4 /\ p4 < p2) /\ ~(p2 < p4 /\ p4 < p0)

\* rules 1, 2 and 4 of validate_impulse_wave, without rule 3
ValidWithoutRule3(pts) ==
    /\ Len(pts) >= 6
    /\ LET p0 == pts[1][2]
           p2 == pts[3][2]
           p4 == pts[5][2]
           p5 == pts[6][2]
       IN  /\ p2 > p0
           /\ Abs(p4 - p2) > Abs(p2 - p0) \/ Abs(p4 - p2) > Abs(p5 - p4)
           /\ ~(p4 < p2 /\ p4 < p0)

\* C30: impulse rule 3 (wave 3 is not the shortest of waves 1, 3, 5) is
\* subsumed by rule 2 (wave 3 is longer than wave 1 or wave 5): every point
\* list is valid exactly when it passes the rules with rule 3 removed.
C30_Rule3Subsumed ==
    (pat_pc \in {"built", "targeted"} /\ pattern_type = "impulse")
        => is_valid = ValidWithoutRule3(points)

\* a valid impulse whose wave 3 is longer than wave 1 and shorter than wave 5
C30_Witness ==
    /\ IsValidImpulse
    /\ Abs(points[5][2] - points[3][2]) > Abs(points[3][2] - points[1][2])
    /\ Abs(points[5][2] - points[3][2]) < Abs(points[6][2] - points[5][2])

\* an impulse rejected by rule 2 with waves 1, 3 and 5 of one length
C30_WitnessEqualWaves ==
    /\ pat_pc = "built" /\ pattern_type = "impulse" /\ Len(points) = 6
    /\ points[3][2] > points[1][2]
    /\ Abs(points[5][2] - points[3][2]) = Abs(points[3][2] - points[1][2])
    /\ Abs(points[5][2] - points[3][2]) = Abs(points[6][2] - points[5][2])
    /\ ~is_valid

-----------------------------------------------------------------------------
(* Properties of get_trade_recommendations: what a recommendation reports   *)

LongSide  == {"Kaufen", "Gewinne mitnehmen"}
ShortSide == {"Verkaufen", "Warten oder Short-Position schliessen"}

\* the risk of a recommendation with a stop-loss, as a fraction of the price
ComputedRisk(rec, cp) ==
    IF rec.empfehlung \in ShortSide
    THEN RDiv(RSub(rec.stop_loss, cp), cp)
    ELSE RDiv(RSub(cp, rec.stop_loss), cp)

\* C25: every recommendation other than Neutral made for a prediction with a
\* (near, far) target reports two targets with their percent change, a
\* stop-loss and two risk/reward ratios, the ratios being left out only when
\* the computed risk is <= 0; in the correction branches as in the trend
\* branches.
C25_RecommendationComplete ==
    (rec_pc = "done" /\ recommendations.empfehlung # "Neutral"
        /\ Len(prediction.target) = 2)
        => /\ Len(recommendations.ziele) = 2
           /\ recommendations.stop_loss # None
           /\ \/ Len(recommendations.risk_reward) = 2
              \/ /\ recommendations.risk_reward = <<>>
                 /\ RLe(ComputedRisk(recommendations, current_price), R(0))

\* C26: in a sell recommendation (trend continuation, falling last leg) the
\* two targets are listed nearer first, in descending price order: the
\* price of the first is >= the price of the second.
C26_SellTargetsDescending ==
    (rec_pc = "done" /\ recommendations.empfehlung = "Verkaufen"
        /\ Len(recommendations.ziele) = 2)
        => RLe(recommendations.ziele[2].preis, recommendations.ziele[1].preis)

-----------------------------------------------------------------------------
(* Properties of backtest: no look-ahead, and the two-state position        *)

\* series that agree with the slice on its first n rows: the slice cut
\* after them, and the slice with every later row moved
SeriesAgreeingOn(n) ==
    LET head == SubSeq(BacktestData, 1, n)
        rest == SubSeq(BacktestData, n + 1, Len(BacktestData))
    IN  {head} \cup {head \o [k \in 1..Len(rest) |-> rest[k] + d] : d \in {-20, 20}}

\* C27: the backtest has no look-ahead: on any series that agrees with the
\* backtested one on the days walked so far, the walk logs the same trades
\* and the same equity points up to that day as the backtest has logged.
C27_NoLookAhead ==
    (bt_pc = "predict" /\ day <= Len(BacktestData)) =>
        \A other \in SeriesAgreeingOn(day) :
            WalkDays(other, MinHistory, day, FloatOfInt(invest_amount), FloatOfInt(0),
                     <<>>, <<>>)
                = [trades |-> trades, equity_curve |-> equity_curve]

\* days have been walked and a trade logged while later rows are still ahead
C27_Witness ==
    /\ bt_pc = "predict"
    /\ day > MinHistory + 1
    /\ day < Len(BacktestData)
    /\ Len(trades) >= 1
    /\ Cardinality(SeriesAgreeingOn(day)) = 3

\* C28: with a positive investment and positive prices the position after
\* every walked day is all cash (cash > 0, shares = 0) or all shares
\* (shares > 0, cash = 0): never both positive, never both zero.
C28_CashOrShares ==
    day > MinHistory =>
        \/ FloatLt(FloatOfInt(0), cash) /\ IsZero(shares)
        \/ FloatLt(FloatOfInt(0), shares) /\ IsZero(cash)

\* a day after a buy: the position is all shares
C28_Witness ==
    /\ day > MinHistory
    /\ Len(trades) >= 1
    /\ trades[Len(trades)].action = "buy"
    /\ FloatLt(FloatOfInt(0), shares) /\ IsZero(cash)

\* a day after a sell: the position is all cash again
C28_WitnessSold ==
    /\ day > MinHistory
    /\ Len(trades) >= 2
    /\ trades[Len(trades)].action = "sell"
    /\ FloatLt(FloatOfInt(0), cash) /\ IsZero(shares)

-----------------------------------------------------------------------------
(* Properties of find_current_wave: which wave is returned                  *)

\* the pivots of the zigzag over the last look_back prices, with the prices
\* they stand on
WindowPivots ==
    IF LastN(fw_prices, fw_look_back) = <<>> THEN <<>>
    ELSE zigzag_filter(LastN(fw_prices, fw_look_back), FindThreshold)
WindowPoints ==
    LET window == LastN(fw_prices, fw_look_back)
    IN  [k \in 1..Len(WindowPivots) |-> <<WindowPivots[k], window[WindowPivots[k] + 1]>>]

WaveAsClaimed ==
    /\ found_wave.type = "None" <=> Len(WindowPivots) < 4
    /\ Len(WindowPivots) >= 4 => found_wave.type \in {"impulse", "corrective"}
    /\ found_wave.type = "impulse"
          <=> (Len(WindowPivots) >= 6 /\ validate_impulse_wave(WindowPoints))

\* C29: find_current_wave returns none exactly when the zigzag over the last
\* look_back prices yields fewer than 4 pivots; with 4 or more it always
\* returns a wave: an impulse exactly when there are at least 6 pivots and
\* the first six satisfy the impulse rules, a corrective wave otherwise.
C29_WaveIffFourPivots == fw_pc = "done" => WaveAsClaimed

\* the same for a positive look_back on series at least look_back long
WaveAsClaimedOnLongSeries ==
    (fw_pc = "done" /\ 1 <= fw_look_back /\ fw_look_back <= Len(fw_prices))
        => WaveAsClaimed

====
